---- MODULE Spec2Model ----
(***************************************************************************)
(* CloudBalancer: an HTTP reverse-proxy load balancer.                     *)
(*                                                                         *)
(* The module models                                                       *)
(*   - the backend pool, the Round-Robin strategy and the load-balancer    *)
(*     core (GetNextBackend / SetStrategy) at the granularity of their     *)
(*     lock operations and shared reads and writes,                        *)
(*   - Backend.ServeHTTP and its connection counter,                       *)
(*   - the health checker (checkBackendHealth),                            *)
(*   - the token-bucket rate limiter, the admission middleware, the        *)
(*     router and the admin rate-limit handler.                            *)
(***************************************************************************)
EXTENDS Integers, Sequences, FiniteSets, TLC

\* ------------------------------------------------------------------ bounds
\* Largest pool size in the concurrent specifications (the pool is fixed at startup).
MaxBackends == 2
\* Number of concurrent data-path requests (goroutines in Handler.LoadBalancer).
NumCallers == 2
\* Largest pool size in the sequential specification.
SeqMaxBackends == 3
\* Number of sequential GetNextBackend calls recorded in the history.
MaxCalls == 6
\* Largest rate (tokens per second) and burst a configuration or an admin
\* request names.
MaxRate == 2
MaxBurst == 2
\* Number of times the clock is advanced.
MaxSleeps == 1
\* Number of Allow results recorded for the observed client's bucket.
MaxLog == 5
\* Number of health probes started in a run of the concurrent checker.
MaxProbes == 2

VARIABLES
    \* ---- load-balancer core, strategy, backends
    backends,           \* loadBalancer.backends: sequence of backend ids
    isHealthy,          \* Backend.isHealthy, per backend id
    activeConnections,  \* Backend.activeConnections, per backend id
    current,            \* RoundRobinStrategy.current of the installed strategy
    mtx,                \* RoundRobinStrategy.mtx: 0 when free, else the holder
    mu,                 \* loadBalancer.mu: the set of callers holding RLock
    \* ---- one data-path request per caller (Handler.LoadBalancer)
    pc,                 \* position of each caller
    start,              \* NextBackend's local `start`
    backendItem,        \* NextBackend's local `backendItem`
    result,             \* what GetNextBackend returned: [b, err]
    seen,               \* the IsHealthy reads of the running call: <<id, value>>
    status,             \* status of the caller's last response (0: none yet)
    respBody,           \* body of the caller's last response ("": none yet)
    \* ---- sequential calls
    history,            \* results of the GetNextBackend calls made so far
    fixedFrom,          \* first index of history made after the last flag change
    \* ---- rate limiter (TokenBucket)
    defaultRate,        \* TokenBucket.defaultRate
    defaultBurst,       \* TokenBucket.defaultBurst
    clientLimits,       \* TokenBucket.clientLimits: client id -> UserLimits
    limiters,           \* TokenBucket.limiters: client id -> rate.Limiter
    now,                \* time.Now(), in ticks
    sleeps,             \* how often the clock has been advanced
    allowLog,           \* Allow results of the observed client's current bucket
    lastOp,             \* the last rate-limiter operation: [op, id, hadEntry, hadBucket]
    \* ---- HTTP server, as observed
    req,                \* the last request served: [path]
    resp,               \* its response and what produced it
    configured,         \* the limits the last POST /admin/ratelimit/{id} set
    keyedLog,           \* since then, the responses to requests with X-API-Key: {id}
    \* ---- health checker, in time
    untilTick,          \* ticks until the health-check ticker fires next
    up,                 \* up[b]: backend b answers GET /health with 200
    probe,              \* probe[b]: where b's checkBackendHealth goroutine is
    sinceFail,          \* ticks since a backend last started to fail, capped
    lastCall,           \* the GetNextBackend call just made, if the last step was one
    \* ---- startup
    config,             \* the Config viper.Unmarshal produced
    startup,            \* what LoadConfig and NewLoadBalancer made of it
    \* ---- rate limiter under concurrent callers
    tbMtx,              \* TokenBucket.mtx: 0 when free, else the holder
    heap,               \* the rate.Limiter objects created so far
    installed,          \* TokenBucket.limiters as pointers: client id -> index in heap
    tpc,                \* position of each rate-limiter caller
    tlocal,             \* its operation and locals
    \* ---- checkBackendHealth goroutines
    ppc,                \* position of each checkBackendHealth goroutine
    plocal,             \* its backend, the outcome of Do, and wasHealthy
    logged,             \* what the goroutines have logged, in order
    changes,            \* the changes of health flags, in order: [b, to]
    probes,             \* how many probes have been started
    \* ---- the guards, acquisition by acquisition
    gpc,                \* position of each goroutine inside its call
    gcall,              \* the call it is in and that call's locals
    muW,                \* lb.mu: the writer that has announced itself, or 0
    bR,                 \* Backend.mtx, per backend: the goroutines reading
    bW                  \* Backend.mtx, per backend: the announced writer, or 0

lbVars == <<backends, isHealthy, activeConnections, current, mtx, mu>>
callerVars == <<pc, start, backendItem, result, seen, status, respBody>>
seqVars == <<history, fixedFrom>>
rlVars == <<defaultRate, defaultBurst, clientLimits, limiters, now, sleeps>>
rlObsVars == <<allowLog, lastOp>>
httpVars == <<req, resp, configured, keyedLog>>
hcVars == <<untilTick, up, probe, sinceFail, lastCall>>
cfgVars == <<config, startup>>
raceVars == <<tbMtx, heap, installed, tpc, tlocal>>
probeVars == <<ppc, plocal, logged, changes, probes>>
guardVars == <<gpc, gcall, muW, bR, bW>>
vars == <<lbVars, callerVars, seqVars, rlVars, rlObsVars, httpVars, hcVars,
          cfgVars, raceVars, probeVars, guardVars>>

Callers == 1 .. NumCallers

\* ------------------------------------------------------------------ values
ErrNoBackends == "no backends available"
ErrNoHealthy == "no healthy backends available"

\* A (backend, error) pair as Go returns it; backend 0 is nil.
Ok(b) == [b |-> b, err |-> ""]
Fail(e) == [b |-> 0, err |-> e]
NoResult == [b |-> 0, err |-> ""]

\* Response statuses of the data path; StatusUpstream stands for the upstream's
\* own response, relayed unchanged.
StatusUpstream == 200
StatusBadGateway == 502
StatusServiceUnavailable == 503

\* Response bodies of the data path; BodyUpstream stands for the upstream's own.
BodyUpstream == "upstream"
BodyNoHealthy == "{\"error\":\"No healthy backends available\"}"
BodyBackendError == "{\"error\": \"Backend server error\"}"

\* The pool NewLoadBalancer builds from k enabled backends, in config order.
Pool(k) == [i \in 1 .. k |-> i]

\* Time in the health checker is counted in ticks of 2.5 s.
\* viper.SetDefault("loadBalancer.healthCheckInterval", "10s")
HealthCheckInterval == 4
\* healthCheck: &http.Client{Timeout: 5 * time.Second, ...}
HealthCheckTimeout == 2
\* sinceFail counts up to the first value past interval plus timeout.
SinceFailCap == HealthCheckInterval + HealthCheckTimeout + 1
NoCall ==
    [err |-> "none", allDown |-> FALSE, afterInterval |-> FALSE,
     afterIntervalAndTimeout |-> FALSE, probesDone |-> FALSE]

\* ============================================================ rate limiter
\* Time is counted in ticks; TicksPerSec ticks make a second.  A bucket's
\* tokens are counted in units of 1/TicksPerSec token, so that a limiter of
\* rate r gains r units per tick and every quantity stays an integer.
RECURSIVE Gcd(_, _)
Gcd(a, b) == IF b = 0 THEN a ELSE Gcd(b, a % b)
RECURSIVE LcmUpTo(_)
LcmUpTo(n) == IF n <= 1 THEN 1 ELSE (n * LcmUpTo(n - 1)) \div Gcd(n, LcmUpTo(n - 1))
TicksPerSec == 2 * LcmUpTo(MaxRate)

Rates == 1 .. MaxRate
Bursts == 1 .. MaxBurst
Min(a, b) == IF a <= b THEN a ELSE b

\* Client ids: the path segment of an admin request, "api:" + X-API-Key, the
\* host of the remote address.
ApiKeys == {"alice"}
RemoteHosts == {"10.0.0.1"}

\* sync.Map: Store and Delete.
Store(m, k, v) == [x \in DOMAIN m \cup {k} |-> IF x = k THEN v ELSE m[x]]
Delete(m, k) == [x \in DOMAIN m \ {k} |-> m[x]]
EmptyMap == [x \in {} |-> 0]

UserLimits(r, b) == [Rate |-> r, Burst |-> b]

\* rate.NewLimiter(rate.Limit(r), b): a full bucket.
NewLimiter(r, b) == [limit |-> r, burst |-> b, tokens |-> b * TicksPerSec]

\* A limiter d ticks later: refilled at lim.limit tokens per second, capped at
\* lim.burst (the continuous refill rate.Limiter computes from the time of its
\* last update whenever it is used).
Refill(lim, d) ==
    [lim EXCEPT !.tokens = Min(lim.burst * TicksPerSec, lim.tokens + d * lim.limit)]

\* limiter.Allow(): takes one token if there is one.
LimiterAllowNoCharge(lim) == [ok |-> lim.tokens >= TicksPerSec, lim |-> lim]
LimiterAllow(lim) ==
    IF lim.tokens >= TicksPerSec
    THEN [ok |-> TRUE, lim |-> [lim EXCEPT !.tokens = @ - TicksPerSec]]
    ELSE [ok |-> FALSE, lim |-> lim]

\* TokenBucket.GetClientLimits on entry map cl: the stored entry, else the defaults.
GetClientLimitsIn(cl, c) ==
    IF c \in DOMAIN cl THEN cl[c] ELSE UserLimits(defaultRate, defaultBurst)
GetClientLimits(c) == GetClientLimitsIn(clientLimits, c)

\* TokenBucket.getLimiter: the bucket map it leaves (the client's bucket is
\* loaded if present, else created from GetClientLimits and stored).
GetLimiter(c) ==
    IF c \in DOMAIN limiters
    THEN limiters
    ELSE Store(limiters, c,
               NewLimiter(GetClientLimits(c).Rate, GetClientLimits(c).Burst))

\* TokenBucket.Allow(clientID): the decision and the bucket map it leaves.
Allow(c) ==
    LET got == LimiterAllow(GetLimiter(c)[c])
    IN  [ok |-> got.ok, limiters |-> Store(GetLimiter(c), c, got.lim)]

\* TokenBucket.SetClientLimits: the entry map and the bucket map it leaves.
SetClientLimits(c, r, b) ==
    [clientLimits |-> Store(clientLimits, c, UserLimits(r, b)),
     limiters |-> Store(limiters, c, NewLimiter(r, b))]

\* TokenBucket.UpdateClientLimits with the admin handler's updateFn, which
\* assigns both fields of the entry GetClientLimits returned.
UpdateClientLimits(c, r, b) ==
    LET limits == [GetClientLimits(c) EXCEPT !.Rate = r, !.Burst = b]
    IN  [clientLimits |-> Store(clientLimits, c, limits),
         limiters |-> Store(limiters, c, NewLimiter(limits.Rate, limits.Burst))]

\* TokenBucket.DeleteClientLimits.
DeleteBucketOnly(c) ==
    [clientLimits |-> clientLimits, limiters |-> Delete(limiters, c)]
DeleteClientLimits(c) ==
    [clientLimits |-> Delete(clientLimits, c), limiters |-> Delete(limiters, c)]

\* NewTokenBucket(defaultRate, defaultBurst, logger)
InitLimiter(r, b) ==
    /\ defaultRate = r
    /\ defaultBurst = b
    /\ clientLimits = EmptyMap
    /\ limiters = EmptyMap
    /\ now = 0
    /\ sleeps = 0
    /\ allowLog = <<>>
    /\ lastOp = [op |-> "new", id |-> "", hadEntry |-> FALSE, hadBucket |-> FALSE]


\* ==================================================================== HTTP
\* r.URL.Path is held as the elements strings.Split(path, "/") yields after the
\* empty first one: "/" is <<"">>, "/admin/ratelimit/alice" is
\* <<"admin", "ratelimit", "alice">>.
Methods == {"GET", "POST", "PUT", "DELETE"}
Paths ==
    {<<"">>, <<"health">>, <<"admin", "stats">>, <<"admin", "strategy">>,
     <<"admin", "ratelimit">>, <<"admin", "other">>}
    \cup {<<"admin", "ratelimit", k>> : k \in ApiKeys}

\* Request bodies: none, a RateLimitRequest (one that fails the handler's
\* validation included), or a strategy change.
NoBody == [kind |-> "none"]
RateLimitBodies ==
    {[kind |-> "limits", rate |-> r, burst |-> b] : r \in Rates, b \in Bursts}
    \cup {[kind |-> "limits", rate |-> 0, burst |-> 0]}
StrategyBodies ==
    {[kind |-> "strategy", strategy |-> s] : s \in {"RoundRobin", "LeastConnections"}}

\* X-Forwarded-For as the list strings.Split(forwardedFor, ",") yields, each
\* element trimmed: absent, or the client's address followed by a proxy's.
ForwardedFors == {<<>>} \cup {<<h, "10.0.0.254">> : h \in RemoteHosts}

\* The requests sent: GETs of every path, with an API key, with an
\* X-Forwarded-For header or with neither; the admin requests that carry a body
\* or delete.
DataRequests ==
    {[method |-> "GET", path |-> p, apiKey |-> k, forwardedFor |-> f,
      remoteHost |-> h, body |-> NoBody] :
        p \in Paths, k \in {""} \cup ApiKeys, f \in ForwardedFors, h \in RemoteHosts}
RateLimitRequests ==
    {[method |-> m, path |-> <<"admin", "ratelimit", k>>, apiKey |-> "",
      forwardedFor |-> <<>>, remoteHost |-> h, body |-> b] :
        m \in Methods \ {"GET"}, k \in ApiKeys,
        b \in {NoBody} \cup RateLimitBodies, h \in RemoteHosts}
StrategyRequests ==
    {[method |-> m, path |-> <<"admin", "strategy">>, apiKey |-> "",
      forwardedFor |-> <<>>, remoteHost |-> h, body |-> b] :
        m \in {"POST", "GET"}, b \in {NoBody} \cup StrategyBodies,
        h \in RemoteHosts}
Requests == DataRequests \cup RateLimitRequests \cup StrategyRequests

NoRequest == [path |-> <<>>]
NoUpstream == [kind |-> "none"]
NoResponse ==
    [handler |-> "", middleware |-> "", allowCalls |-> 0, status |-> 0,
     retryAfter |-> 0, backend |-> 0, body |-> "", xBackend |-> "",
     upstream |-> NoUpstream]
NotConfigured == [id |-> "", rate |-> 0, burst |-> 0]

\* viper.SetDefault("rateLimit.defaultRate", 100.0)
DefaultRate == 100

StatusOK == 200
StatusCreated == 201
StatusNoContent == 204
StatusMovedPermanently == 301
StatusBadRequest == 400
StatusMethodNotAllowed == 405
StatusTooManyRequests == 429
RetryAfterSeconds == 60

\* getClientID: "api:" + X-API-Key, else the first X-Forwarded-For address,
\* else the host of RemoteAddr.
getClientID(r) ==
    IF r.apiKey # "" THEN "api:" \o r.apiKey
    ELSE IF r.forwardedFor # <<>> THEN r.forwardedFor[1]
    ELSE r.remoteHost

\* strings.HasPrefix(r.URL.Path, "/admin/")
HasAdminPrefix(path) == Len(path) >= 2 /\ path[1] = "admin"

\* The middleware's test for paths it does not rate-limit.
ExemptAdminOnly(path) == HasAdminPrefix(path)
Exempt(path) == HasAdminPrefix(path) \/ path = <<"health">>

\* http.ServeMux with the patterns SetupRoutes registers: an exact pattern
\* matches its path only, "/admin/ratelimit/" matches every path below it and
\* redirects the path without the trailing slash, "/" matches everything else.
Mux(path) ==
    IF path = <<"health">> THEN "HealthCheck"
    ELSE IF path = <<"admin", "stats">> THEN "AdminGetStats"
    ELSE IF path = <<"admin", "strategy">> THEN "AdminChangeStrategy"
    ELSE IF Len(path) >= 3 /\ path[1] = "admin" /\ path[2] = "ratelimit"
         THEN "RateLimitHandler"
    ELSE IF path = <<"admin", "ratelimit">> THEN "Redirect"
    ELSE "Middleware"

Seen(r) == [path |-> r.path]
Response(handler, code) ==
    [NoResponse EXCEPT !.handler = handler, !.status = code]

InitHTTP ==
    /\ req = NoRequest
    /\ resp = NoResponse
    /\ configured = NotConfigured
    /\ keyedLog = <<>>

\* ============================================================ load balancer
\* ------------------------------------------------------------ Round-Robin
\* s.current = (s.current + 1) % len(backends)
AdvanceByTwo(c, n) == (c + 2) % n
Advance(c, n) == (c + 1) % n

\* The loop's exit test after an unhealthy backend: s.current == start.
WrappedAtOnce(c, s) == c = c
Wrapped(c, s) == c = s

\* What the loop does with the value IsHealthy returned for backendItem.
HealthyTestIgnored(h) == TRUE
HealthyTest(h) == h

\* NextBackend's loop run to its end without interruption, from cursor c with
\* start st: the result and the cursor it leaves.
RECURSIVE Scan(_, _, _, _)
Scan(pool, h, c, st) ==
    LET item == pool[c + 1]
        c2 == Advance(c, Len(pool))
    IN  IF HealthyTest(h[item]) THEN [res |-> Ok(item), current |-> c2]
        ELSE IF Wrapped(c2, st) THEN [res |-> Fail(ErrNoHealthy), current |-> c2]
        ELSE Scan(pool, h, c2, st)

\* RoundRobinStrategy.NextBackend as one uninterrupted call.
NextBackend(pool, h, c) ==
    IF Len(pool) = 0
    THEN [res |-> Fail(ErrNoBackends), current |-> c]
    ELSE Scan(pool, h, c, c)

\* ------------------------------------------------------------------- Init
NoConfig == [method |-> "", backends |-> <<>>]
NotStarted == [err |-> "not started", pool |-> <<>>]
NoOperation == [op |-> "none"]

NoProbe == [b |-> 0, o |-> "none", wasHealthy |-> FALSE]

\* No goroutine is inside a call and no guard is held.
NotInACall == [op |-> "none", b |-> 0, h |-> FALSE, start |-> 0]
InitGuards ==
    /\ gpc = [g \in Callers |-> "idle"]
    /\ gcall = [g \in Callers |-> NotInACall]
    /\ muW = 0
    /\ bR = [b \in 1 .. MaxBackends |-> {}]
    /\ bW = [b \in 1 .. MaxBackends |-> 0]

InitProbes ==
    /\ ppc = [g \in Callers |-> "idle"]
    /\ plocal = [g \in Callers |-> NoProbe]
    /\ logged = <<>>
    /\ changes = <<>>
    /\ probes = 0
    /\ InitGuards

InitRace ==
    /\ InitProbes
    /\ tbMtx = 0
    /\ heap = <<>>
    /\ installed = EmptyMap
    /\ tpc = [g \in Callers |-> "idle"]
    /\ tlocal = [g \in Callers |-> NoOperation]

InitCallers ==
    /\ pc = [p \in Callers |-> "idle"]
    /\ start = [p \in Callers |-> 0]
    /\ backendItem = [p \in Callers |-> 0]
    /\ result = [p \in Callers |-> NoResult]
    /\ seen = [p \in Callers |-> <<>>]
    /\ status = [p \in Callers |-> 0]
    /\ respBody = [p \in Callers |-> ""]

InitSeq ==
    /\ history = <<>>
    /\ fixedFrom = 1
    /\ InitHTTP
    /\ config = NoConfig
    /\ startup = NotStarted
    /\ InitRace

\* NewBackend: isHealthy true, activeConnections 0; NewRoundRobinStrategy: current 0.
\* startHealthCheck is about to make its first HealthCheck call.
InitPool(k) ==
    /\ backends = Pool(k)
    /\ isHealthy = [b \in 1 .. k |-> TRUE]
    /\ activeConnections = [b \in 1 .. k |-> 0]
    /\ current = 0
    /\ mtx = 0
    /\ mu = {}
    /\ untilTick = 0
    /\ up = [b \in 1 .. k |-> TRUE]
    /\ probe = [b \in 1 .. k |-> "idle"]
    /\ sinceFail = SinceFailCap
    /\ lastCall = NoCall

\* NewLoadBalancer: fails unless at least one backend is enabled.
Init ==
    /\ \E k \in 1 .. MaxBackends : InitPool(k)
    /\ InitCallers
    /\ InitSeq
    /\ InitLimiter(1, 1)

\* --------------------------------------------------- GetNextBackend steps
\* Handler.LoadBalancer calls GetNextBackend: lb.mu.RLock()
GNB_RLock(p) ==
    /\ pc[p] = "idle"
    /\ mu' = mu \cup {p}
    /\ pc' = [pc EXCEPT ![p] = "rlocked"]
    /\ status' = [status EXCEPT ![p] = 0]
    /\ respBody' = [respBody EXCEPT ![p] = ""]
    /\ UNCHANGED <<backends, isHealthy, activeConnections, current, mtx>>
    /\ UNCHANGED <<start, backendItem, result, seen>>

\* NextBackend: if len(backends) == 0 { return nil, "no backends available" }
NB_Empty(p) ==
    /\ pc[p] = "rlocked"
    /\ Len(backends) = 0
    /\ result' = [result EXCEPT ![p] = Fail(ErrNoBackends)]
    /\ pc' = [pc EXCEPT ![p] = "unlock"]
    /\ UNCHANGED lbVars
    /\ UNCHANGED <<start, backendItem, seen, status, respBody>>

\* NextBackend: s.mtx.Lock(); start := s.current
NB_Lock(p) ==
    /\ pc[p] = "rlocked"
    /\ Len(backends) # 0
    /\ mtx = 0
    /\ mtx' = p
    /\ start' = [start EXCEPT ![p] = current]
    /\ pc' = [pc EXCEPT ![p] = "loop"]
    /\ UNCHANGED <<backends, isHealthy, activeConnections, current, mu>>
    /\ UNCHANGED <<backendItem, result, seen, status, respBody>>

\* backendItem := backends[s.current]; s.current = (s.current + 1) % len(backends)
NB_Pick(p) ==
    /\ pc[p] = "loop"
    /\ backendItem' = [backendItem EXCEPT ![p] = backends[current + 1]]
    /\ current' = Advance(current, Len(backends))
    /\ pc' = [pc EXCEPT ![p] = "check"]
    /\ UNCHANGED <<backends, isHealthy, activeConnections, mtx, mu>>
    /\ UNCHANGED <<start, result, seen, status, respBody>>

\* NextBackend returns: the deferred s.mtx.Unlock(); its locals are gone.
NB_Return(p) ==
    /\ mtx' = 0
    /\ start' = [start EXCEPT ![p] = 0]
    /\ backendItem' = [backendItem EXCEPT ![p] = 0]
    /\ pc' = [pc EXCEPT ![p] = "unlock"]

\* if backendItem.IsHealthy() { return backendItem, nil }
\* if s.current == start { return nil, "no healthy backends available" }
NB_Check(p) ==
    /\ pc[p] = "check"
    /\ LET h == isHealthy[backendItem[p]] IN
        /\ seen' = [seen EXCEPT ![p] = Append(@, <<backendItem[p], h>>)]
        /\ IF HealthyTest(h)
           THEN /\ result' = [result EXCEPT ![p] = Ok(backendItem[p])]
                /\ NB_Return(p)
           ELSE IF Wrapped(current, start[p])
           THEN /\ result' = [result EXCEPT ![p] = Fail(ErrNoHealthy)]
                /\ NB_Return(p)
           ELSE /\ pc' = [pc EXCEPT ![p] = "loop"]
                /\ UNCHANGED <<result, mtx, start, backendItem>>
    /\ UNCHANGED <<backends, isHealthy, activeConnections, current, mu>>
    /\ UNCHANGED <<status, respBody>>

\* GetNextBackend returns: the deferred lb.mu.RUnlock()
GNB_RUnlock(p) ==
    /\ pc[p] = "unlock"
    /\ mu' = mu \ {p}
    /\ pc' = [pc EXCEPT ![p] = "returned"]
    /\ seen' = [seen EXCEPT ![p] = <<>>]
    /\ UNCHANGED <<backends, isHealthy, activeConnections, current, mtx>>
    /\ UNCHANGED <<start, backendItem, result, status, respBody>>

\* ------------------------------------------------ Handler.LoadBalancer
\* What the handler writes when GetNextBackend returned error e: 503 and the
\* same JSON body whatever the error.
ErrorAsBadGateway(e) == [status |-> StatusBadGateway, body |-> BodyBackendError]
ErrorResponse(e) == [status |-> StatusServiceUnavailable, body |-> BodyNoHealthy]

\* GetNextBackend failed: respond 503 and return.
Handler_Unavailable(p) ==
    /\ pc[p] = "returned"
    /\ result[p].err # ""
    /\ pc' = [pc EXCEPT ![p] = "idle"]
    /\ status' = [status EXCEPT ![p] = ErrorResponse(result[p].err).status]
    /\ respBody' = [respBody EXCEPT ![p] = ErrorResponse(result[p].err).body]
    /\ result' = [result EXCEPT ![p] = NoResult]
    /\ UNCHANGED lbVars
    /\ UNCHANGED <<start, backendItem, seen>>

\* atomic.AddInt64(&b.activeConnections, 1)
IncrementConnections(a, b) == [a EXCEPT ![b] = @ + 1]
\* atomic.AddInt64(&b.activeConnections, -1)
DecrementConnections(a, b) == [a EXCEPT ![b] = @ - 1]

\* ServeHTTP's `defer b.DecrementConnections()`: runs whatever the proxy did.
DecrementOnSuccessOnly(a, b, st) ==
    IF st = StatusBadGateway THEN a ELSE DecrementConnections(a, b)
DeferredDecrement(a, b, st) == DecrementConnections(a, b)

\* backend.ServeHTTP: b.IncrementConnections()
Serve_Increment(p) ==
    /\ pc[p] = "returned"
    /\ result[p].err = ""
    /\ activeConnections' = IncrementConnections(activeConnections, result[p].b)
    /\ pc' = [pc EXCEPT ![p] = "proxy"]
    /\ UNCHANGED <<backends, isHealthy, current, mtx, mu>>
    /\ UNCHANGED <<start, backendItem, result, seen, status, respBody>>

\* b.Proxy.ServeHTTP(w, r): the upstream's response is relayed, or the
\* transport fails and the ErrorHandler writes 502.
Serve_Proxy(p) ==
    /\ pc[p] = "proxy"
    /\ \E st \in {StatusUpstream, StatusBadGateway} :
        /\ status' = [status EXCEPT ![p] = st]
        /\ respBody' = [respBody EXCEPT ![p] =
                        IF st = StatusBadGateway THEN BodyBackendError ELSE BodyUpstream]
    /\ pc' = [pc EXCEPT ![p] = "deferred"]
    /\ UNCHANGED lbVars
    /\ UNCHANGED <<start, backendItem, result, seen>>

\* ServeHTTP returns: the deferred b.DecrementConnections()
Serve_Decrement(p) ==
    /\ pc[p] = "deferred"
    /\ activeConnections' =
           DeferredDecrement(activeConnections, result[p].b, status[p])
    /\ pc' = [pc EXCEPT ![p] = "idle"]
    /\ result' = [result EXCEPT ![p] = NoResult]
    /\ UNCHANGED <<backends, isHealthy, current, mtx, mu>>
    /\ UNCHANGED <<start, backendItem, seen, status, respBody>>

\* ------------------------------------------------------------ SetStrategy
\* lb.mu.Lock(); lb.strategy = strategy; lb.mu.Unlock(), with the strategy the
\* admin handler got from GetStrategy("RoundRobin"): a fresh cursor and mutex.
SetStrategyKeepingCursor ==
    /\ mu = {}
    /\ UNCHANGED <<backends, isHealthy, activeConnections, current, mtx, mu>>
    /\ UNCHANGED callerVars

SetStrategy ==
    /\ mu = {}
    /\ current' = 0
    /\ mtx' = 0
    /\ UNCHANGED <<backends, isHealthy, activeConnections, mu>>
    /\ UNCHANGED callerVars

\* ------------------------------------------------------------- SetHealthy
\* Backend.SetHealthy(healthy), as checkBackendHealth calls it with the outcome
\* of a probe: b.mtx.Lock(); b.isHealthy = healthy; b.mtx.Unlock()
SetHealthy(b, h) ==
    /\ isHealthy' = [isHealthy EXCEPT ![b] = h]
    /\ UNCHANGED <<backends, activeConnections, current, mtx, mu>>
    /\ UNCHANGED callerVars

\* ------------------------------------------------------------------- Next
CallerStep(p) ==
    \/ GNB_RLock(p)
    \/ NB_Lock(p)
    \/ NB_Pick(p)
    \/ NB_Check(p)
    \/ GNB_RUnlock(p)
    \/ Handler_Unavailable(p)
    \/ Serve_Increment(p)
    \/ Serve_Proxy(p)
    \/ Serve_Decrement(p)

HealthWrite == \E b \in 1 .. Len(backends), h \in BOOLEAN : SetHealthy(b, h)

\* The running balancer: concurrent data-path requests, health-flag writes by
\* the checker, strategy swaps by the admin path.
Next ==
    /\ \/ \E p \in Callers : CallerStep(p)
       \/ HealthWrite
       \/ SetStrategy
    /\ UNCHANGED <<seqVars, cfgVars, raceVars, rlVars, rlObsVars, httpVars, hcVars, probeVars, guardVars>>

Spec == Init /\ [][Next]_vars

\* The strategy driven with any slice, the empty one included (NextBackend is
\* exported and takes the pool as its argument).
InitRR ==
    /\ \E k \in 0 .. MaxBackends : InitPool(k)
    /\ InitCallers
    /\ InitSeq
    /\ InitLimiter(1, 1)

NextRR ==
    /\ \/ \E p \in Callers : CallerStep(p) \/ NB_Empty(p)
       \/ HealthWrite
       \/ SetStrategy
    /\ UNCHANGED <<seqVars, cfgVars, raceVars, rlVars, rlObsVars, httpVars, hcVars, probeVars, guardVars>>

SpecRR == InitRR /\ [][NextRR]_vars

\* ======================================================= sequential calls
\* GetNextBackend called again and again by one caller, each call run to its
\* end (RLock, NextBackend, RUnlock) before the next; the checker may write a
\* flag between two calls.
InitSeqPool ==
    /\ \E k \in 1 .. SeqMaxBackends : InitPool(k)
    /\ InitCallers
    /\ InitSeq
    /\ InitLimiter(1, 1)

SeqGetNextBackend ==
    /\ Len(history) < MaxCalls
    /\ LET r == NextBackend(backends, isHealthy, current) IN
        /\ current' = r.current
        /\ history' = Append(history, r.res)
    /\ UNCHANGED <<backends, isHealthy, activeConnections, mtx, mu>>
    /\ UNCHANGED fixedFrom
    /\ UNCHANGED callerVars

SeqSetHealthy ==
    /\ \E b \in 1 .. Len(backends), h \in BOOLEAN :
        /\ SetHealthy(b, h)
        /\ fixedFrom' = IF isHealthy[b] = h THEN fixedFrom ELSE Len(history) + 1
    /\ UNCHANGED history

NextSeq ==
    /\ \/ SeqGetNextBackend
       \/ SeqSetHealthy
    /\ UNCHANGED <<rlVars, rlObsVars, httpVars, hcVars, probeVars, guardVars, cfgVars, raceVars>>

SpecSeq == InitSeqPool /\ [][NextSeq]_vars


\* ========================================= rate limiter: operations
\* The client whose Allow results allowLog records.
Observed == "api:alice"
\* The clients the limiter's operations are applied to.
LimiterClients == {"alice", Observed}

\* ---- the limiter's operations, called one after another
\* What lastOp records of operation op on client c: whether c had an entry and
\* a bucket when the operation began.
Op(op, c) ==
    [op |-> op, id |-> c,
     hadEntry |-> c \in DOMAIN clientLimits, hadBucket |-> c \in DOMAIN limiters]

RL_Allow(c) ==
    /\ limiters' = Allow(c).limiters
    /\ lastOp' = Op("allow", c)
    /\ UNCHANGED <<defaultRate, defaultBurst, clientLimits, now, sleeps>>

RL_Set(c, r, b) ==
    /\ lastOp' = Op("set", c)
    /\ clientLimits' = SetClientLimits(c, r, b).clientLimits
    /\ limiters' = SetClientLimits(c, r, b).limiters
    /\ UNCHANGED <<defaultRate, defaultBurst, now, sleeps>>

RL_Update(c, r, b) ==
    /\ clientLimits' = UpdateClientLimits(c, r, b).clientLimits
    /\ limiters' = UpdateClientLimits(c, r, b).limiters
    /\ lastOp' = Op("update", c)
    /\ UNCHANGED <<defaultRate, defaultBurst, now, sleeps>>

RL_Delete(c) ==
    /\ lastOp' = Op("delete", c)
    /\ clientLimits' = DeleteClientLimits(c).clientLimits
    /\ limiters' = DeleteClientLimits(c).limiters
    /\ UNCHANGED <<defaultRate, defaultBurst, now, sleeps>>

\* TokenBucket.GetClientLimits as a call: what it returns and the entry map
\* it leaves.  It loads from tb.clientLimits and stores nothing.
GetClientLimitsStoring(c) ==
    [limits |-> GetClientLimits(c),
     clientLimits |-> Store(clientLimits, c, GetClientLimits(c))]
GetClientLimitsCall(c) ==
    [limits |-> GetClientLimits(c), clientLimits |-> clientLimits]

\* TokenBucket.GetRate and GetBurst: a field of what GetClientLimits returns.
GetRate(c) == GetClientLimitsCall(c).limits.Rate
GetBurst(c) == GetClientLimitsCall(c).limits.Burst

\* GetClientLimits(c), or GetRate(c) and GetBurst(c), called; lastOp also
\* records what was returned.
RL_Get(c) ==
    /\ lastOp' = [op |-> "get", id |-> c,
                  hadEntry |-> c \in DOMAIN clientLimits,
                  hadBucket |-> c \in DOMAIN limiters,
                  got |-> UserLimits(GetRate(c), GetBurst(c))]
    /\ clientLimits' = GetClientLimitsCall(c).clientLimits
    /\ UNCHANGED <<defaultRate, defaultBurst, limiters, now, sleeps>>

\* Time passes between two calls: one tick, or the 1/r seconds a limiter of rate r needs for a token.
SleepDurations == {1} \cup {TicksPerSec \div r : r \in Rates}
Sleep(d) ==
    /\ sleeps < MaxSleeps
    /\ now' = now + d
    /\ sleeps' = sleeps + 1
    /\ limiters' = [c \in DOMAIN limiters |-> Refill(limiters[c], d)]
    /\ UNCHANGED <<defaultRate, defaultBurst, clientLimits>>

\* A limiter built with any configured defaults.
InitRL ==
    /\ InitPool(1)
    /\ InitCallers
    /\ InitSeq
    /\ \E r \in Rates, b \in Bursts : InitLimiter(r, b)

NextRL ==
    /\ \/ \E c \in LimiterClients : RL_Allow(c)
       \/ \E c \in LimiterClients, r \in Rates, b \in Bursts : RL_Set(c, r, b)
       \/ \E c \in LimiterClients, r \in Rates, b \in Bursts : RL_Update(c, r, b)
       \/ \E c \in LimiterClients : RL_Delete(c)
       \/ \E c \in LimiterClients : RL_Get(c)
    /\ UNCHANGED allowLog
    /\ UNCHANGED <<lbVars, callerVars, seqVars, cfgVars, raceVars, httpVars, hcVars, probeVars, guardVars>>

SpecRL == InitRL /\ [][NextRL]_vars

\* ---- one client's bucket observed: every Allow result is logged with its
\* time; replacing or deleting the bucket starts the log afresh.
Obs_Allow ==
    /\ Len(allowLog) < MaxLog
    /\ RL_Allow(Observed)
    /\ allowLog' = Append(allowLog, [t |-> now, ok |-> Allow(Observed).ok])

Obs_Reset ==
    /\ \/ \E r \in Rates, b \in Bursts : RL_Set(Observed, r, b)
       \/ \E r \in Rates, b \in Bursts : RL_Update(Observed, r, b)
       \/ RL_Delete(Observed)
    /\ allowLog' = <<>>

Obs_Sleep ==
    /\ \E d \in SleepDurations : Sleep(d)
    /\ UNCHANGED <<allowLog, lastOp>>

NextBucket ==
    /\ \/ Obs_Allow
       \/ Obs_Reset
       \/ Obs_Sleep
    /\ UNCHANGED <<lbVars, callerVars, seqVars, cfgVars, raceVars, httpVars, hcVars, probeVars, guardVars>>

SpecBucket == InitRL /\ [][NextBucket]_vars

\* ========================================================= HTTP handlers
\* json.NewDecoder(r.Body).Decode(&limits) into a RateLimitRequest: an empty
\* body is an error, fields the body lacks stay zero.
DecodeRateLimitRequest(body) ==
    IF body.kind = "none" THEN [err |-> TRUE, Rate |-> 0, Burst |-> 0]
    ELSE IF body.kind = "limits" THEN [err |-> FALSE, Rate |-> body.rate, Burst |-> body.burst]
    ELSE [err |-> FALSE, Rate |-> 0, Burst |-> 0]

\* The same into struct{Strategy string}.
DecodeStrategyRequest(body) ==
    IF body.kind = "none" THEN [err |-> TRUE, Strategy |-> ""]
    ELSE IF body.kind = "strategy" THEN [err |-> FALSE, Strategy |-> body.strategy]
    ELSE [err |-> FALSE, Strategy |-> ""]

\* algorithm.GetStrategy(name): nil error for "RoundRobin" only.
GetStrategyNeverFails(name) == FALSE
GetStrategyFails(name) == name # "RoundRobin"

\* RoundRobinStrategy.Name(), the only strategy type there is.
StrategyName == "RoundRobin"
\* fmt.Errorf("unknown balancing strategy: %s", name)
ErrUnknownStrategy(name) == "unknown balancing strategy: " \o name
BodyInvalidRequest == "Invalid request body"

\* ---- handlers; each action is one request served from start to end
\* Handler.HealthCheck
HealthCheck(r) ==
    /\ req' = Seen(r)
    /\ resp' = Response("HealthCheck", StatusOK)
    /\ UNCHANGED <<lbVars, clientLimits, limiters, configured, keyedLog>>

\* Handler.AdminGetStats
AdminGetStats(r) ==
    /\ req' = Seen(r)
    /\ resp' = [Response("AdminGetStats", StatusOK) EXCEPT !.body = StrategyName]
    /\ UNCHANGED <<lbVars, clientLimits, limiters, configured, keyedLog>>

\* ServeMux's redirect of "/admin/ratelimit" to "/admin/ratelimit/"
MuxRedirect(r) ==
    /\ req' = Seen(r)
    /\ resp' = Response("Redirect", StatusMovedPermanently)
    /\ UNCHANGED <<lbVars, clientLimits, limiters, configured, keyedLog>>

\* Handler.AdminChangeStrategy
AdminChangeStrategy(r) ==
    /\ req' = Seen(r)
    /\ IF r.method # "POST"
       THEN /\ resp' = Response("AdminChangeStrategy", StatusMethodNotAllowed)
            /\ UNCHANGED lbVars
       ELSE IF DecodeStrategyRequest(r.body).err
       THEN /\ resp' = [Response("AdminChangeStrategy", StatusBadRequest)
                            EXCEPT !.body = BodyInvalidRequest]
            /\ UNCHANGED lbVars
       ELSE IF GetStrategyFails(DecodeStrategyRequest(r.body).Strategy)
       THEN /\ resp' = [Response("AdminChangeStrategy", StatusBadRequest)
                            EXCEPT !.body = ErrUnknownStrategy(
                                       DecodeStrategyRequest(r.body).Strategy)]
            /\ UNCHANGED lbVars
       ELSE /\ SetStrategy
            /\ resp' = [Response("AdminChangeStrategy", StatusOK)
                            EXCEPT !.body = StrategyName]
    /\ UNCHANGED <<clientLimits, limiters, configured, keyedLog>>

\* if limits.Rate <= 0 || limits.Burst <= 0, in createRateLimit and in
\* updateRateLimit
InvalidRateOnly(limits) == limits.Rate <= 0
Invalid(limits) == limits.Rate <= 0 \/ limits.Burst <= 0

\* RateLimitHandler.HandleRateLimit with getRateLimit, createRateLimit,
\* updateRateLimit and deleteRateLimit; clientID := parts[3].
HandleRateLimit(r) ==
    LET clientID == r.path[3]
        limits == DecodeRateLimitRequest(r.body)
        invalid == limits.err \/ Invalid(limits)
    IN
    /\ req' = Seen(r)
    /\ IF Len(r.path) + 1 < 4
       THEN /\ resp' = Response("RateLimitHandler", StatusBadRequest)
            /\ UNCHANGED <<clientLimits, limiters, configured, keyedLog>>
       ELSE IF r.method = "GET"
       THEN /\ resp' = Response("RateLimitHandler", StatusOK)
            /\ UNCHANGED <<clientLimits, limiters, configured, keyedLog>>
       ELSE IF r.method \in {"POST", "PUT"} /\ invalid
       THEN /\ resp' = Response("RateLimitHandler", StatusBadRequest)
            /\ UNCHANGED <<clientLimits, limiters, configured, keyedLog>>
       ELSE IF r.method = "POST"
       THEN /\ clientLimits' = SetClientLimits(clientID, limits.Rate, limits.Burst).clientLimits
            /\ limiters' = SetClientLimits(clientID, limits.Rate, limits.Burst).limiters
            /\ resp' = Response("RateLimitHandler", StatusCreated)
            /\ configured' = [id |-> clientID, rate |-> limits.Rate, burst |-> limits.Burst]
            /\ keyedLog' = <<>>
       ELSE IF r.method = "PUT"
       THEN /\ clientLimits' = UpdateClientLimits(clientID, limits.Rate, limits.Burst).clientLimits
            /\ limiters' = UpdateClientLimits(clientID, limits.Rate, limits.Burst).limiters
            /\ resp' = Response("RateLimitHandler", StatusOK)
            /\ configured' = NotConfigured
            /\ keyedLog' = <<>>
       ELSE IF r.method = "DELETE"
       THEN /\ clientLimits' = DeleteClientLimits(clientID).clientLimits
            /\ limiters' = DeleteClientLimits(clientID).limiters
            /\ resp' = Response("RateLimitHandler", StatusNoContent)
            /\ configured' = NotConfigured
            /\ keyedLog' = <<>>
       ELSE /\ resp' = Response("RateLimitHandler", StatusMethodNotAllowed)
            /\ UNCHANGED <<clientLimits, limiters, configured, keyedLog>>
    /\ UNCHANGED lbVars

\* The id of the backend at position b of the pool (BackendConfig.ID).
BackendIDs == <<"b1", "b2", "b3", "b4">>
BackendID(b) == BackendIDs[backends[b]]

\* setupDirector: req.Header.Set("X-Backend", backendID), with the id of the
\* backend the proxy was built for.
Director(b) == BackendID(b)

\* What the upstream does with a forwarded request: it answers with a status
\* and a body of its own, or the round trip fails (refused, reset, timeout).
\* An upstream that is not reachable never answers.
StatusInternalServerError == 500
BodyUpstreamError == "upstream error"
UpstreamResponses ==
    {[kind |-> "response", status |-> StatusUpstream, body |-> BodyUpstream],
     [kind |-> "response", status |-> StatusInternalServerError,
      body |-> BodyUpstreamError]}
UpstreamFailure == [kind |-> "failure"]
UpstreamOutcomes(b) ==
    IF up[b] THEN UpstreamResponses \cup {UpstreamFailure} ELSE {UpstreamFailure}

\* httputil.ReverseProxy: the upstream's response is copied to the client;
\* the ErrorHandler runs only when the round trip returned an error.
ProxyMasking5xx(o) ==
    IF o.kind = "failure" \/ o.status >= StatusInternalServerError
    THEN [status |-> StatusBadGateway, body |-> BodyBackendError]
    ELSE [status |-> o.status, body |-> o.body]
Proxy(o) ==
    IF o.kind = "failure"
    THEN [status |-> StatusBadGateway, body |-> BodyBackendError]
    ELSE [status |-> o.status, body |-> o.body]

\* The health flags after Backend.ServeHTTP on backend b ended with outcome
\* o: neither ServeHTTP, the proxy, the director nor the error handler calls
\* SetHealthy.
FlagsMarkingFailure(h, b, o) ==
    IF o.kind = "failure" THEN [h EXCEPT ![b] = FALSE] ELSE h
FlagsAfterServe(h, b, o) == h

\* Handler.LoadBalancer, reached through the middleware, which did mw and
\* called Allow calls times: GetNextBackend, then 503 or backend.ServeHTTP.
LoadBalancer(mw, calls) ==
    LET nb == NextBackend(backends, isHealthy, current) IN
    /\ current' = nb.current
    /\ IF nb.res.err # ""
       THEN /\ resp' = [NoResponse EXCEPT
                            !.handler = "LoadBalancer", !.middleware = mw,
                            !.allowCalls = calls,
                            !.status = ErrorResponse(nb.res.err).status,
                            !.body = ErrorResponse(nb.res.err).body]
            /\ UNCHANGED <<activeConnections, isHealthy>>
       ELSE \E o \in UpstreamOutcomes(nb.res.b) :
            /\ resp' = [NoResponse EXCEPT
                            !.handler = "LoadBalancer", !.middleware = mw,
                            !.allowCalls = calls,
                            !.status = Proxy(o).status,
                            !.body = Proxy(o).body,
                            !.backend = nb.res.b,
                            !.xBackend = Director(nb.res.b),
                            !.upstream = o]
            /\ activeConnections' =
                   DeferredDecrement(IncrementConnections(activeConnections, nb.res.b),
                                     nb.res.b, Proxy(o).status)
            /\ isHealthy' = FlagsAfterServe(isHealthy, nb.res.b, o)
    /\ UNCHANGED <<backends, mtx, mu>>

\* RateLimiterMiddleware.Middleware wrapped around Handler.LoadBalancer.
Middleware(r) ==
    /\ req' = Seen(r)
    /\ IF Exempt(r.path)
       THEN /\ LoadBalancer("bypass", 0)
            /\ UNCHANGED limiters
       ELSE /\ limiters' = Allow(getClientID(r)).limiters
            /\ IF Allow(getClientID(r)).ok
               THEN LoadBalancer("admit", 1)
               ELSE /\ resp' = [NoResponse EXCEPT
                                    !.handler = "Middleware",
                                    !.middleware = "reject", !.allowCalls = 1,
                                    !.status = StatusTooManyRequests,
                                    !.retryAfter = RetryAfterSeconds]
                    /\ UNCHANGED lbVars
    /\ keyedLog' =
           IF /\ ~Exempt(r.path)
              /\ r.apiKey # ""
              /\ r.apiKey = configured.id
              /\ Len(keyedLog) <= configured.burst
           THEN Append(keyedLog, [rejected |-> resp'.status = StatusTooManyRequests,
                                  retryAfter |-> resp'.retryAfter])
           ELSE keyedLog
    /\ UNCHANGED <<clientLimits, configured>>

\* Router.ServeHTTP: the mux picks the handler.
RouterServeHTTP(r) ==
    \/ Mux(r.path) = "HealthCheck" /\ HealthCheck(r)
    \/ Mux(r.path) = "AdminGetStats" /\ AdminGetStats(r)
    \/ Mux(r.path) = "AdminChangeStrategy" /\ AdminChangeStrategy(r)
    \/ Mux(r.path) = "RateLimitHandler" /\ HandleRateLimit(r)
    \/ Mux(r.path) = "Redirect" /\ MuxRedirect(r)
    \/ Mux(r.path) = "Middleware" /\ Middleware(r)

\* The health checker writes a flag between two requests.
ProbeResult ==
    /\ HealthWrite
    /\ req' = NoRequest
    /\ resp' = NoResponse
    /\ UNCHANGED <<clientLimits, limiters, configured, keyedLog>>

\* NewApp with the configuration's default rate and a default burst of the
\* operator's choosing.
InitServer ==
    /\ InitPool(1)
    /\ InitCallers
    /\ InitSeq
    /\ \E b \in Bursts : InitLimiter(DefaultRate, b)

\* The server: requests served one after another.
NextHTTP ==
    /\ \/ \E r \in Requests : RouterServeHTTP(r)
       \/ ProbeResult
    /\ UNCHANGED <<callerVars, seqVars, cfgVars, raceVars, rlObsVars, hcVars, probeVars, guardVars>>
    /\ UNCHANGED <<defaultRate, defaultBurst, now, sleeps>>

SpecHTTP == InitServer /\ [][NextHTTP]_vars

\* The middleware called on its own, in front of Handler.LoadBalancer, with
\* requests of every path.
NextMW ==
    /\ \/ \E r \in DataRequests : Middleware(r)
       \/ ProbeResult
    /\ UNCHANGED <<callerVars, seqVars, cfgVars, raceVars, rlObsVars, hcVars, probeVars, guardVars>>
    /\ UNCHANGED <<defaultRate, defaultBurst, now, sleeps>>

SpecMW == InitServer /\ [][NextMW]_vars

\* ====================================================== health checker
\* The health checker in time.  Only the probe's HTTP exchange takes time, at
\* most HealthCheckTimeout; the ticker's loop and the goroutine's statements
\* after Do returns take none.  With the timeout shorter than the interval a
\* round of probes has returned before the next round starts.

\* startHealthCheck: HealthCheck at once and then on every tick of the ticker;
\* HealthCheck starts one checkBackendHealth goroutine per backend.
HC_Tick ==
    /\ untilTick = 0
    /\ \A b \in DOMAIN probe : probe[b] = "idle"
    /\ probe' = [b \in DOMAIN probe |-> "sent"]
    /\ untilTick' = HealthCheckInterval
    /\ lastCall' = NoCall
    /\ UNCHANGED <<lbVars, up, sinceFail>>

\* The backend's answer to the probe is fixed: 200 if it is up; if not, a
\* status other than 200, or no answer (refused, or the client's timeout).
HC_Respond(b) ==
    /\ probe[b] = "sent"
    /\ \E o \in (IF up[b] THEN {"ok"} ELSE {"non200", "error"}) :
        probe' = [probe EXCEPT ![b] = o]
    /\ lastCall' = NoCall
    /\ UNCHANGED <<lbVars, untilTick, up, sinceFail>>

\* The flag checkBackendHealth writes: false on a transport error, else
\* resp.StatusCode == http.StatusOK.
VerdictUnlessError(o) == o # "error"
VerdictOnlyOfAnswers(o) == o # "non200"
Verdict(o) == o = "ok"

\* lb.healthCheck.Do(req) returns and checkBackendHealth writes the flag.
HC_Done(b) ==
    /\ probe[b] \in {"ok", "non200", "error"}
    /\ SetHealthy(b, Verdict(probe[b]))
    /\ probe' = [probe EXCEPT ![b] = "idle"]
    /\ lastCall' = NoCall
    /\ UNCHANGED <<untilTick, up, sinceFail>>

\* The environment: a backend starts to fail, or recovers.
HC_Fail(b) ==
    /\ up[b]
    /\ up' = [up EXCEPT ![b] = FALSE]
    /\ sinceFail' = 0
    /\ lastCall' = NoCall
    /\ UNCHANGED <<lbVars, untilTick, probe>>

HC_Recover(b) ==
    /\ ~up[b]
    /\ up' = [up EXCEPT ![b] = TRUE]
    /\ lastCall' = NoCall
    /\ UNCHANGED <<lbVars, untilTick, probe, sinceFail>>

\* Ticks since the ticker last fired.
SinceTick == HealthCheckInterval - untilTick

\* One tick of time passes: not past the ticker's firing, and not past the
\* client timeout of a probe that has not returned.
HC_Advance ==
    /\ untilTick > 0
    /\ SinceTick < HealthCheckTimeout \/ \A b \in DOMAIN probe : probe[b] = "idle"
    /\ untilTick' = untilTick - 1
    /\ sinceFail' = Min(sinceFail + 1, SinceFailCap)
    /\ lastCall' = NoCall
    /\ UNCHANGED <<lbVars, up, probe>>

\* GetNextBackend, from RLock to RUnlock, called at the current time.  The
\* call is made with every probe failed and completed when every backend has
\* been failing since before the last round of probes started and all of that
\* round have returned.
HC_GetNextBackend ==
    LET nb == NextBackend(backends, isHealthy, current)
        allDown == \A b \in DOMAIN up : ~up[b]
    IN  /\ current' = nb.current
        /\ lastCall' = [err |-> nb.res.err,
                        allDown |-> allDown,
                        afterInterval |-> sinceFail > HealthCheckInterval,
                        afterIntervalAndTimeout |->
                            sinceFail > HealthCheckInterval + HealthCheckTimeout,
                        probesDone |-> /\ allDown
                                       /\ sinceFail > SinceTick
                                       /\ \A b \in DOMAIN probe : probe[b] = "idle"]
        /\ UNCHANGED <<backends, isHealthy, activeConnections, mtx, mu>>
        /\ UNCHANGED <<callerVars, untilTick, up, probe, sinceFail>>

InitHC ==
    /\ \E k \in 1 .. MaxBackends : InitPool(k)
    /\ InitCallers
    /\ InitSeq
    /\ InitLimiter(1, 1)

NextHC ==
    /\ \/ HC_Tick
       \/ \E b \in DOMAIN probe : HC_Respond(b)
       \/ \E b \in DOMAIN probe : HC_Done(b)
       \/ \E b \in DOMAIN up : HC_Fail(b)
       \/ \E b \in DOMAIN up : HC_Recover(b)
       \/ HC_Advance
       \/ HC_GetNextBackend
    /\ UNCHANGED <<callerVars, seqVars, cfgVars, raceVars, rlVars, rlObsVars, httpVars>>
    /\ UNCHANGED <<probeVars, guardVars>>

SpecHC == InitHC /\ [][NextHC]_vars

\* ============================================= data path since startup
\* The data path and the health checker in time, from startup on, in front of
\* upstreams whose state does not change: each is reachable or is not.
\* sinceFail counts the ticks since startup.

\* A probe of a reachable upstream is answered 200; a probe of an unreachable
\* one returns an error (refused, or the client's timeout).
Down_Respond(b) ==
    /\ probe[b] = "sent"
    /\ probe' = [probe EXCEPT ![b] = IF up[b] THEN "ok" ELSE "error"]
    /\ lastCall' = NoCall
    /\ UNCHANGED <<lbVars, untilTick, up, sinceFail>>

\* A client request to "/" at the current time, past the middleware.
Down_Request ==
    /\ req' = [path |-> <<"">>]
    /\ LoadBalancer("admit", 1)
    /\ UNCHANGED <<configured, keyedLog, hcVars, probeVars, guardVars>>

\* NewLoadBalancer: every backend starts with isHealthy true, and the health
\* checker's goroutine has been started and has not run yet.
InitDown ==
    /\ \E k \in 1 .. MaxBackends :
        /\ backends = Pool(k)
        /\ up \in [1 .. k -> BOOLEAN]
        /\ isHealthy = [b \in 1 .. k |-> TRUE]
        /\ activeConnections = [b \in 1 .. k |-> 0]
        /\ probe = [b \in 1 .. k |-> "idle"]
    /\ current = 0
    /\ mtx = 0
    /\ mu = {}
    /\ untilTick = 0
    /\ sinceFail = 0
    /\ lastCall = NoCall
    /\ InitCallers
    /\ InitSeq
    /\ InitLimiter(1, 1)

NextDown ==
    /\ \/ /\ \/ HC_Tick
             \/ \E b \in DOMAIN probe : Down_Respond(b)
             \/ \E b \in DOMAIN probe : HC_Done(b)
             \/ HC_Advance
          /\ req' = NoRequest
          /\ resp' = NoResponse
          /\ UNCHANGED <<configured, keyedLog>>
       \/ Down_Request
    /\ UNCHANGED <<callerVars, seqVars, cfgVars, raceVars, rlVars, rlObsVars>>
    /\ UNCHANGED <<probeVars, guardVars>>

SpecDown == InitDown /\ [][NextDown]_vars

\* ====================================================== strategy change
\* The admin strategy and stats endpoints in front of a pool whose cursor
\* moves: data requests, strategy requests and stats requests served one
\* after another, and the health checker writing flags in between.
StatsRequests ==
    {r \in DataRequests : /\ r.path = <<"admin", "stats">>
                          /\ r.apiKey = ""
                          /\ r.forwardedFor = <<>>}
ProxiedRequests ==
    {r \in DataRequests : r.path = <<"">> /\ r.forwardedFor = <<>>}

InitStrategy ==
    /\ \E k \in 1 .. MaxBackends : InitPool(k)
    /\ InitCallers
    /\ InitSeq
    /\ InitLimiter(DefaultRate, MaxBurst)

NextStrategy ==
    /\ \/ \E r \in StrategyRequests : AdminChangeStrategy(r)
       \/ \E r \in StatsRequests : AdminGetStats(r)
       \/ \E r \in ProxiedRequests : Middleware(r)
       \/ ProbeResult
    /\ UNCHANGED <<callerVars, seqVars, cfgVars, raceVars, rlObsVars, hcVars, probeVars, guardVars>>
    /\ UNCHANGED <<defaultRate, defaultBurst, now, sleeps>>

SpecStrategy == InitStrategy /\ [][NextStrategy]_vars

\* =================================================== admin rate limits
\* The admin rate-limit endpoint with bodies of every sign, and the
\* middleware in front of the data path, served one request after another.
SignedRates == {-1, 0} \cup Rates
SignedBursts == {-1, 0} \cup Bursts
AdminLimitRequests ==
    {[method |-> m, path |-> <<"admin", "ratelimit", k>>, apiKey |-> "",
      forwardedFor |-> <<>>, remoteHost |-> h,
      body |-> [kind |-> "limits", rate |-> r, burst |-> b]] :
        m \in Methods \ {"GET"}, k \in RemoteHosts,
        r \in SignedRates, b \in SignedBursts, h \in RemoteHosts}

NextAdminLimits ==
    /\ \/ \E r \in AdminLimitRequests : HandleRateLimit(r)
       \/ \E r \in ProxiedRequests : Middleware(r)
    /\ UNCHANGED <<callerVars, seqVars, cfgVars, raceVars, rlObsVars, hcVars, probeVars, guardVars>>
    /\ UNCHANGED <<defaultRate, defaultBurst, now, sleeps>>

SpecAdminLimits == InitServer /\ [][NextAdminLimits]_vars

\* ================================================ rate limiting disabled
\* NewApp with config.RateLimit.Enabled false:
\* rate_limiter.NewTokenBucket(1000000, 1000000, log.Logger); the router, the
\* middleware and the admin endpoints are set up as they are when it is
\* enabled.
DisabledRate == 1000000
DisabledBurst == 1000000

InitDisabled ==
    /\ InitPool(1)
    /\ InitCallers
    /\ InitSeq
    /\ InitLimiter(DisabledRate, DisabledBurst)

\* A client request to "/", its outcome added to the log of the run.
Disabled_Request(r) ==
    /\ Len(allowLog) < MaxLog
    /\ Middleware(r)
    /\ allowLog' = Append(allowLog, [t |-> now,
                                     ok |-> resp'.status # StatusTooManyRequests])
    /\ UNCHANGED lastOp

Disabled_Admin(r) ==
    /\ HandleRateLimit(r)
    /\ UNCHANGED rlObsVars

NextDisabled ==
    /\ \/ \E r \in AdminLimitRequests : Disabled_Admin(r)
       \/ \E r \in ProxiedRequests : Disabled_Request(r)
    /\ UNCHANGED <<callerVars, seqVars, cfgVars, raceVars, hcVars, probeVars, guardVars>>
    /\ UNCHANGED <<defaultRate, defaultBurst, now, sleeps>>

SpecDisabled == InitDisabled /\ [][NextDisabled]_vars

\* ================================================================ startup
\* LoadConfig's validateConfig followed by NewLoadBalancer, on configurations
\* of up to MaxBackends backends.  Hosts and ports are left out: every
\* backend's URL parses.
ConfigIDs == {"", "b1", "b2"}
ConfigMethods == {"RoundRobin", "LeastConnections"}
BackendConfigs == [id : ConfigIDs, enabled : BOOLEAN]
SeqsUpTo(S, n) == UNION {[1 .. k -> S] : k \in 0 .. n}
Configs ==
    [method : ConfigMethods,
     backends : SeqsUpTo(BackendConfigs, MaxBackends),
     rateLimit : [enabled : BOOLEAN, defaultRate : {0, 1}, defaultBurst : {0, 1}]]

\* var SupportedBalancingMethods = []string{"RoundRobin"}
SupportedBalancingMethods == {"RoundRobin"}

\* validateConfig: the error it returns, "" for nil.
validateConfig(c) ==
    IF c.method \notin SupportedBalancingMethods THEN "unsupported balancing method"
    ELSE IF Len(c.backends) = 0 THEN "no backends configured"
    ELSE IF \E i \in 1 .. Len(c.backends) : c.backends[i].id = ""
         THEN "backend has empty ID"
    ELSE IF \A i \in 1 .. Len(c.backends) : ~c.backends[i].enabled
         THEN "no enabled backends configured"
    ELSE IF c.rateLimit.enabled /\ c.rateLimit.defaultRate <= 0
         THEN "rate limit default rate must be positive"
    ELSE IF c.rateLimit.enabled /\ c.rateLimit.defaultBurst <= 0
         THEN "rate limit default burst must be positive"
    ELSE ""

IsEnabled(bc) == bc.enabled

\* The ids of lb.backends: one backend per enabled entry, in the
\* configuration's order.
EnabledIDs(c) ==
    LET en == SelectSeq(c.backends, IsEnabled)
    IN  [i \in 1 .. Len(en) |-> en[i].id]

\* NewLoadBalancer: [err, pool], the pool as the sequence of its backends' ids.
NewLoadBalancer(c) ==
    IF GetStrategyFails(c.method)
    THEN [err |-> "failed to create balancing strategy", pool |-> <<>>]
    ELSE IF Len(EnabledIDs(c)) = 0
    THEN [err |-> "no enabled backends configured", pool |-> <<>>]
    ELSE [err |-> "", pool |-> EnabledIDs(c)]

\* LoadConfig, then NewApp's call of NewLoadBalancer.
Startup ==
    /\ startup = NotStarted
    /\ startup' = IF validateConfig(config) # ""
                  THEN [err |-> validateConfig(config), pool |-> <<>>]
                  ELSE NewLoadBalancer(config)
    /\ UNCHANGED config

InitConfig ==
    /\ InitPool(1)
    /\ InitCallers
    /\ history = <<>>
    /\ fixedFrom = 1
    /\ InitHTTP
    /\ InitRace
    /\ InitLimiter(1, 1)
    /\ config \in Configs
    /\ startup = NotStarted

NextConfig ==
    /\ Startup
    /\ UNCHANGED <<lbVars, callerVars, seqVars, rlVars, rlObsVars, httpVars,
                   hcVars, probeVars, guardVars, raceVars>>

SpecConfig == InitConfig /\ [][NextConfig]_vars

\* ======================================= rate limiter, concurrent callers
\* Each caller makes one call on the TokenBucket for the same client, and the
\* calls interleave statement by statement.  tb.limiters holds pointers: a
\* caller that loaded or created a limiter keeps using that object whatever
\* is stored under the key afterwards.  No time passes.  Reading the entry a
\* pointer leads to is taken as one step.
RaceClient == "10.0.0.1"
NoLimits == UserLimits(0, 0)
Call(op, r, b) ==
    [op |-> op, rate |-> r, burst |-> b, limits |-> NoLimits, limiter |-> 0,
     ok |-> FALSE]

\* The caller enters Allow, SetClientLimits, UpdateClientLimits or
\* DeleteClientLimits.
T_Call(g, op, r, b) ==
    /\ tpc[g] = "idle"
    /\ tlocal[g] = NoOperation
    /\ tlocal' = [tlocal EXCEPT ![g] = Call(op, r, b)]
    /\ tpc' = [tpc EXCEPT ![g] = IF op = "allow" THEN "load" ELSE "lock"]
    /\ UNCHANGED <<tbMtx, heap, installed, clientLimits>>

\* getLimiter: if limiter, ok := tb.limiters.Load(clientID); ok { return }
T_Load(g) ==
    /\ tpc[g] = "load"
    /\ IF RaceClient \in DOMAIN installed
       THEN /\ tlocal' = [tlocal EXCEPT ![g].limiter = installed[RaceClient]]
            /\ tpc' = [tpc EXCEPT ![g] = "allow"]
       ELSE /\ tpc' = [tpc EXCEPT ![g] = "limits"]
            /\ UNCHANGED tlocal
    /\ UNCHANGED <<tbMtx, heap, installed, clientLimits>>

\* getLimiter: limits := tb.GetClientLimits(clientID)
T_GetClientLimits(g) ==
    /\ tpc[g] = "limits"
    /\ tlocal' = [tlocal EXCEPT ![g].limits = GetClientLimits(RaceClient)]
    /\ tpc' = [tpc EXCEPT ![g] = "store"]
    /\ UNCHANGED <<tbMtx, heap, installed, clientLimits>>

\* getLimiter: limiter := rate.NewLimiter(...); tb.limiters.Store(clientID, limiter)
T_Store(g) ==
    /\ tpc[g] = "store"
    /\ heap' = Append(heap, NewLimiter(tlocal[g].limits.Rate, tlocal[g].limits.Burst))
    /\ installed' = Store(installed, RaceClient, Len(heap) + 1)
    /\ tlocal' = [tlocal EXCEPT ![g].limiter = Len(heap) + 1]
    /\ tpc' = [tpc EXCEPT ![g] = "allow"]
    /\ UNCHANGED <<tbMtx, clientLimits>>

\* Allow: allowed := limiter.Allow(), on the limiter getLimiter returned.
T_LimiterAllow(g) ==
    /\ tpc[g] = "allow"
    /\ heap' = [heap EXCEPT ![tlocal[g].limiter] = LimiterAllow(@).lim]
    /\ tlocal' = [tlocal EXCEPT ![g].ok = LimiterAllow(heap[tlocal[g].limiter]).ok]
    /\ tpc' = [tpc EXCEPT ![g] = "done"]
    /\ UNCHANGED <<tbMtx, installed, clientLimits>>

\* tb.mtx.Lock()
T_Lock(g) ==
    /\ tpc[g] = "lock"
    /\ tbMtx = 0
    /\ tbMtx' = g
    /\ tpc' = [tpc EXCEPT ![g] = "entry"]
    /\ UNCHANGED <<heap, installed, clientLimits, tlocal>>

\* tb.clientLimits.Store(clientID, ...) with the limits given (set) or with
\* GetClientLimits' result after updateFn (update); tb.clientLimits.Delete.
T_Entry(g) ==
    LET limits == IF tlocal[g].op = "update"
                  THEN [GetClientLimits(RaceClient) EXCEPT
                            !.Rate = tlocal[g].rate, !.Burst = tlocal[g].burst]
                  ELSE UserLimits(tlocal[g].rate, tlocal[g].burst)
    IN  /\ tpc[g] = "entry"
        /\ IF tlocal[g].op = "delete"
           THEN /\ clientLimits' = Delete(clientLimits, RaceClient)
                /\ UNCHANGED tlocal
           ELSE /\ clientLimits' = Store(clientLimits, RaceClient, limits)
                /\ tlocal' = [tlocal EXCEPT ![g].limits = limits]
        /\ tpc' = [tpc EXCEPT ![g] = "bucket"]
        /\ UNCHANGED <<tbMtx, heap, installed>>

\* tb.limiters.Store(clientID, rate.NewLimiter(...)); tb.limiters.Delete.
T_Bucket(g) ==
    /\ tpc[g] = "bucket"
    /\ IF tlocal[g].op = "delete"
       THEN /\ installed' = Delete(installed, RaceClient)
            /\ UNCHANGED heap
       ELSE /\ heap' = Append(heap, NewLimiter(tlocal[g].limits.Rate,
                                               tlocal[g].limits.Burst))
            /\ installed' = Store(installed, RaceClient, Len(heap) + 1)
    /\ tpc' = [tpc EXCEPT ![g] = "unlock"]
    /\ UNCHANGED <<tbMtx, clientLimits, tlocal>>

\* defer tb.mtx.Unlock()
T_Unlock(g) ==
    /\ tpc[g] = "unlock"
    /\ tbMtx' = 0
    /\ tpc' = [tpc EXCEPT ![g] = "done"]
    /\ UNCHANGED <<heap, installed, clientLimits, tlocal>>

InitRaceLimiter ==
    /\ InitPool(1)
    /\ InitCallers
    /\ InitSeq
    /\ \E r \in Rates, b \in Bursts : InitLimiter(r, b)

NextRace ==
    /\ \E g \in Callers :
        \/ T_Call(g, "allow", 0, 0)
        \/ T_Call(g, "delete", 0, 0)
        \/ \E r \in Rates, b \in Bursts : T_Call(g, "set", r, b)
        \/ \E r \in Rates, b \in Bursts : T_Call(g, "update", r, b)
        \/ T_Load(g)
        \/ T_GetClientLimits(g)
        \/ T_Store(g)
        \/ T_LimiterAllow(g)
        \/ T_Lock(g)
        \/ T_Entry(g)
        \/ T_Bucket(g)
        \/ T_Unlock(g)
    /\ UNCHANGED <<lbVars, callerVars, seqVars, cfgVars, rlObsVars, httpVars, hcVars, probeVars, guardVars>>
    /\ UNCHANGED <<defaultRate, defaultBurst, limiters, now, sleeps>>

SpecRace == InitRaceLimiter /\ [][NextRace]_vars

\* ============================================ checkBackendHealth, concurrent
\* checkBackendHealth goroutines, statement by statement.  HealthCheck starts
\* one per backend on every tick and whenever it is called, so two goroutines
\* of one backend overlap when a probe is still running at the next tick or
\* call.  The upstream answers a probe as it pleases.

\* What a goroutine logs: level, message and backend.
Event(level, msg, b) == [level |-> level, msg |-> msg, b |-> b]

\* go lb.checkBackendHealth(ctx, b)
P_Start(g, b) ==
    /\ ppc[g] = "idle"
    /\ probes < MaxProbes
    /\ probes' = probes + 1
    /\ plocal' = [plocal EXCEPT ![g] = [NoProbe EXCEPT !.b = b]]
    /\ ppc' = [ppc EXCEPT ![g] = "request"]
    /\ UNCHANGED <<lbVars, logged, changes>>

\* http.NewRequestWithContext: on an error, log it and return.
P_NewRequest(g) ==
    /\ ppc[g] = "request"
    /\ \/ /\ ppc' = [ppc EXCEPT ![g] = "do"]
          /\ UNCHANGED <<plocal, logged>>
       \/ /\ ppc' = [ppc EXCEPT ![g] = "idle"]
          /\ plocal' = [plocal EXCEPT ![g] = NoProbe]
          /\ logged' = Append(logged, Event("error", "Failed to create health check request",
                                            plocal[g].b))
    /\ UNCHANGED <<lbVars, changes, probes>>

\* resp, err := lb.healthCheck.Do(req), and on an error
\* lb.logger.Warn("Health check connection failed", ...)
P_Do(g) ==
    /\ ppc[g] = "do"
    /\ \E o \in {"ok", "non200", "error"} :
        /\ plocal' = [plocal EXCEPT ![g].o = o]
        /\ logged' = IF o = "error"
                     THEN Append(logged, Event("warn", "Health check connection failed",
                                               plocal[g].b))
                     ELSE logged
    /\ ppc' = [ppc EXCEPT ![g] = "read"]
    /\ UNCHANGED <<lbVars, changes, probes>>

\* wasHealthy := b.IsHealthy()
P_IsHealthy(g) ==
    /\ ppc[g] = "read"
    /\ plocal' = [plocal EXCEPT ![g].wasHealthy = isHealthy[plocal[g].b]]
    /\ ppc' = [ppc EXCEPT ![g] = "write"]
    /\ UNCHANGED <<lbVars, logged, changes, probes>>

\* b.SetHealthy(false), or b.SetHealthy(resp.StatusCode == http.StatusOK)
P_SetHealthy(g) ==
    /\ ppc[g] = "write"
    /\ SetHealthy(plocal[g].b, Verdict(plocal[g].o))
    /\ changes' = IF isHealthy[plocal[g].b] # Verdict(plocal[g].o)
                  THEN Append(changes, [b |-> plocal[g].b, to |-> Verdict(plocal[g].o)])
                  ELSE changes
    /\ ppc' = [ppc EXCEPT ![g] = "log"]
    /\ UNCHANGED <<plocal, logged, probes>>

\* The transition logs: after an error, if wasHealthy; after a response, if
\* wasHealthy != isHealthy.
TransitionEvents(l) ==
    IF l.o = "error"
    THEN IF l.wasHealthy
         THEN <<Event("warn", "Backend became unhealthy due to connection error", l.b)>>
         ELSE <<>>
    ELSE IF l.wasHealthy = Verdict(l.o) THEN <<>>
    ELSE IF Verdict(l.o) THEN <<Event("info", "Backend became healthy", l.b)>>
    ELSE <<Event("warn", "Backend became unhealthy", l.b)>>

P_Log(g) ==
    /\ ppc[g] = "log"
    /\ logged' = logged \o TransitionEvents(plocal[g])
    /\ ppc' = [ppc EXCEPT ![g] = "idle"]
    /\ plocal' = [plocal EXCEPT ![g] = NoProbe]
    /\ UNCHANGED <<lbVars, changes, probes>>

InitProbe ==
    /\ \E k \in 1 .. MaxBackends : InitPool(k)
    /\ InitCallers
    /\ InitSeq
    /\ InitLimiter(1, 1)

NextProbe ==
    /\ \/ \E g \in Callers, b \in DOMAIN isHealthy : P_Start(g, b)
       \/ \E g \in Callers : P_NewRequest(g)
       \/ \E g \in Callers : P_Do(g)
       \/ \E g \in Callers : P_IsHealthy(g)
       \/ \E g \in Callers : P_SetHealthy(g)
       \/ \E g \in Callers : P_Log(g)
    /\ UNCHANGED <<callerVars, seqVars, cfgVars, rlVars, rlObsVars, httpVars, hcVars>>
    /\ UNCHANGED <<tbMtx, heap, installed, tpc, tlocal, guardVars>>

SpecProbe == InitProbe /\ [][NextProbe]_vars

\* ============================================== the guards, one by one
\* Every call that takes a guard, acquisition by acquisition: lb.mu
\* (sync.RWMutex), RoundRobinStrategy.mtx (sync.Mutex), Backend.mtx
\* (sync.RWMutex, one per backend) and TokenBucket.mtx (sync.RWMutex, only ever
\* write-locked).  A sync.RWMutex lets Lock announce the writer first, after
\* which RLock blocks; the writer goes on when the readers that were inside
\* have left, and its Unlock admits the readers that blocked meanwhile.

\* The goroutines blocked in lb.mu.RLock, and in b.mtx.RLock: Unlock admits
\* them all.
NoneAdmitted == {}
BlockedOnMu == {g \in Callers : gpc[g] = "mu.blocked"}
BlockedOnBackend(b) == {g \in Callers : gpc[g] = "b.blocked" /\ gcall[g].b = b}

\* The call is over: its locals are gone.
Returned(g) ==
    /\ gpc' = [gpc EXCEPT ![g] = "idle"]
    /\ gcall' = [gcall EXCEPT ![g] = NotInACall]

\* lb.mu.RLock() of GetNextBackend, GetBackends and GetStrategy
G_RLock(g, op) ==
    /\ gpc[g] = "idle"
    /\ gcall' = [gcall EXCEPT ![g] = [NotInACall EXCEPT !.op = op]]
    /\ IF muW = 0
       THEN /\ mu' = mu \cup {g}
            /\ gpc' = [gpc EXCEPT ![g] = "mu.r"]
       ELSE /\ gpc' = [gpc EXCEPT ![g] = "mu.blocked"]
            /\ UNCHANGED mu
    /\ UNCHANGED <<backends, isHealthy, activeConnections, current, mtx, tbMtx, muW, bR, bW>>

\* GetBackends copies the slice, GetStrategy reads the field; the deferred
\* lb.mu.RUnlock()
G_ReadCore(g) ==
    /\ gpc[g] = "mu.r"
    /\ gcall[g].op \in {"GetBackends", "GetStrategy"}
    /\ mu' = mu \ {g}
    /\ Returned(g)
    /\ UNCHANGED <<backends, isHealthy, activeConnections, current, mtx, tbMtx, muW, bR, bW>>

\* NextBackend: s.mtx.Lock(); start := s.current
G_NB_Lock(g) ==
    /\ gpc[g] = "mu.r"
    /\ gcall[g].op = "GetNextBackend"
    /\ mtx = 0
    /\ mtx' = g
    /\ gcall' = [gcall EXCEPT ![g].start = current]
    /\ gpc' = [gpc EXCEPT ![g] = "scan"]
    /\ UNCHANGED <<backends, isHealthy, activeConnections, current, mu, tbMtx, muW, bR, bW>>

\* backendItem := backends[s.current]; s.current = (s.current + 1) % len(backends)
G_NB_Pick(g) ==
    /\ gpc[g] = "scan"
    /\ gcall' = [gcall EXCEPT ![g].b = backends[current + 1]]
    /\ current' = Advance(current, Len(backends))
    /\ gpc' = [gpc EXCEPT ![g] = "item"]
    /\ UNCHANGED <<backends, isHealthy, activeConnections, mtx, mu, tbMtx, muW, bR, bW>>

\* b.mtx.RLock() of IsHealthy: granted, or blocked behind an announced writer.
BackendRLock(g, b) ==
    IF bW[b] = 0
    THEN /\ bR' = [bR EXCEPT ![b] = @ \cup {g}]
         /\ gpc' = [gpc EXCEPT ![g] = "b.r"]
    ELSE /\ gpc' = [gpc EXCEPT ![g] = "b.blocked"]
         /\ UNCHANGED bR

\* backendItem.IsHealthy() inside NextBackend: b.mtx.RLock()
G_NB_IsHealthy(g) ==
    /\ gpc[g] = "item"
    /\ BackendRLock(g, gcall[g].b)
    /\ UNCHANGED <<backends, isHealthy, activeConnections, current, mtx, mu, tbMtx, muW, bW,
                   gcall>>

\* b.IsHealthy() of checkBackendHealth and AdminGetStats: b.mtx.RLock()
G_IsHealthy(g, b) ==
    /\ gpc[g] = "idle"
    /\ gcall' = [gcall EXCEPT ![g] = [NotInACall EXCEPT !.op = "IsHealthy", !.b = b]]
    /\ BackendRLock(g, b)
    /\ UNCHANGED <<backends, isHealthy, activeConnections, current, mtx, mu, tbMtx, muW, bW>>

\* IsHealthy returns b.isHealthy with the deferred b.mtx.RUnlock().  Inside
\* NextBackend the loop goes on: return the backend (deferred s.mtx.Unlock()),
\* or return the error when s.current == start, or pick the next one.
G_IsHealthyReturn(g) ==
    /\ gpc[g] = "b.r"
    /\ bR' = [bR EXCEPT ![gcall[g].b] = @ \ {g}]
    /\ IF gcall[g].op = "IsHealthy"
       THEN /\ Returned(g)
            /\ UNCHANGED mtx
       ELSE IF HealthyTest(isHealthy[gcall[g].b]) \/ Wrapped(current, gcall[g].start)
       THEN /\ mtx' = 0
            /\ gpc' = [gpc EXCEPT ![g] = "mu.ret"]
            /\ gcall' = [gcall EXCEPT ![g] = [NotInACall EXCEPT !.op = "GetNextBackend"]]
       ELSE /\ gpc' = [gpc EXCEPT ![g] = "scan"]
            /\ UNCHANGED <<mtx, gcall>>
    /\ UNCHANGED <<backends, isHealthy, activeConnections, current, mu, tbMtx, muW, bW>>

\* GetNextBackend returns: the deferred lb.mu.RUnlock()
G_GNB_RUnlock(g) ==
    /\ gpc[g] = "mu.ret"
    /\ mu' = mu \ {g}
    /\ Returned(g)
    /\ UNCHANGED <<backends, isHealthy, activeConnections, current, mtx, tbMtx, muW, bR, bW>>

\* A call of SetStrategy, of SetHealthy or of Set/Update/DeleteClientLimits
\* begins: its first statement is Lock().
G_Lock(g, op, b) ==
    /\ gpc[g] = "idle"
    /\ gcall' = [gcall EXCEPT ![g] = [NotInACall EXCEPT !.op = op, !.b = b]]
    /\ gpc' = [gpc EXCEPT ![g] = "lock"]
    /\ UNCHANGED <<lbVars, tbMtx, muW, bR, bW>>

\* lb.mu.Lock(): the writer is announced, readers block from now on.
G_Mu_Announce(g) ==
    /\ gpc[g] = "lock"
    /\ gcall[g].op = "SetStrategy"
    /\ muW = 0
    /\ muW' = g
    /\ gpc' = [gpc EXCEPT ![g] = "mu.wait"]
    /\ UNCHANGED <<lbVars, tbMtx, bR, bW, gcall>>

\* lb.mu.Lock() returns when the readers have left.
G_Mu_Acquire(g) ==
    /\ gpc[g] = "mu.wait"
    /\ mu = {}
    /\ gpc' = [gpc EXCEPT ![g] = "mu.w"]
    /\ UNCHANGED <<lbVars, tbMtx, muW, bR, bW, gcall>>

\* lb.strategy = strategy, a strategy NewRoundRobinStrategy has just made;
\* the deferred lb.mu.Unlock() admits the readers that blocked.
G_SetStrategy(g) ==
    /\ gpc[g] = "mu.w"
    /\ current' = 0
    /\ mtx' = 0
    /\ muW' = 0
    /\ mu' = BlockedOnMu
    /\ gpc' = [h \in Callers |-> IF h = g THEN "idle"
                                 ELSE IF h \in BlockedOnMu THEN "mu.r" ELSE gpc[h]]
    /\ gcall' = [gcall EXCEPT ![g] = NotInACall]
    /\ UNCHANGED <<backends, isHealthy, activeConnections, tbMtx, bR, bW>>

\* SetHealthy: b.mtx.Lock(), the writer is announced.
G_B_Announce(g) ==
    /\ gpc[g] = "lock"
    /\ gcall[g].op = "SetHealthy"
    /\ bW[gcall[g].b] = 0
    /\ bW' = [bW EXCEPT ![gcall[g].b] = g]
    /\ gpc' = [gpc EXCEPT ![g] = "b.wait"]
    /\ UNCHANGED <<lbVars, tbMtx, muW, bR, gcall>>

\* b.mtx.Lock() returns when the readers have left.
G_B_Acquire(g) ==
    /\ gpc[g] = "b.wait"
    /\ bR[gcall[g].b] = {}
    /\ gpc' = [gpc EXCEPT ![g] = "b.w"]
    /\ UNCHANGED <<lbVars, tbMtx, muW, bR, bW, gcall>>

\* b.isHealthy = healthy; the deferred b.mtx.Unlock() admits the readers that
\* blocked.
G_SetHealthy(g) ==
    /\ gpc[g] = "b.w"
    /\ LET b == gcall[g].b IN
        /\ \E h \in BOOLEAN : isHealthy' = [isHealthy EXCEPT ![b] = h]
        /\ bW' = [bW EXCEPT ![b] = 0]
        /\ bR' = [bR EXCEPT ![b] = BlockedOnBackend(b)]
        /\ gpc' = [h \in Callers |-> IF h = g THEN "idle"
                                     ELSE IF h \in BlockedOnBackend(b) THEN "b.r"
                                     ELSE gpc[h]]
    /\ gcall' = [gcall EXCEPT ![g] = NotInACall]
    /\ UNCHANGED <<backends, activeConnections, current, mtx, mu, tbMtx, muW>>

\* Set/Update/DeleteClientLimits: tb.mtx.Lock()
G_T_Lock(g) ==
    /\ gpc[g] = "lock"
    /\ gcall[g].op = "ClientLimits"
    /\ tbMtx = 0
    /\ tbMtx' = g
    /\ gpc' = [gpc EXCEPT ![g] = "tb.w"]
    /\ UNCHANGED <<lbVars, muW, bR, bW, gcall>>

\* ... the two sync.Map operations, and the deferred tb.mtx.Unlock()
G_T_Unlock(g) ==
    /\ gpc[g] = "tb.w"
    /\ tbMtx' = 0
    /\ Returned(g)
    /\ UNCHANGED <<lbVars, muW, bR, bW>>

\* Allow: getLimiter and limiter.Allow take no guard.
G_Allow(g) ==
    /\ gpc[g] = "idle"
    /\ gcall' = [gcall EXCEPT ![g] = [NotInACall EXCEPT !.op = "Allow"]]
    /\ gpc' = [gpc EXCEPT ![g] = "allow"]
    /\ UNCHANGED <<lbVars, tbMtx, muW, bR, bW>>

G_AllowReturn(g) ==
    /\ gpc[g] = "allow"
    /\ Returned(g)
    /\ UNCHANGED <<lbVars, tbMtx, muW, bR, bW>>

\* A goroutine begins a call.
G_Begin(g) ==
    \/ \E op \in {"GetNextBackend", "GetBackends", "GetStrategy"} : G_RLock(g, op)
    \/ \E b \in DOMAIN isHealthy : G_IsHealthy(g, b)
    \/ G_Lock(g, "SetStrategy", 0)
    \/ \E b \in DOMAIN isHealthy : G_Lock(g, "SetHealthy", b)
    \/ G_Lock(g, "ClientLimits", 0)
    \/ G_Allow(g)

\* A goroutine inside a call takes its next step.
G_Step(g) ==
    \/ G_ReadCore(g)
    \/ G_NB_Lock(g)
    \/ G_NB_Pick(g)
    \/ G_NB_IsHealthy(g)
    \/ G_IsHealthyReturn(g)
    \/ G_GNB_RUnlock(g)
    \/ G_Mu_Announce(g)
    \/ G_Mu_Acquire(g)
    \/ G_SetStrategy(g)
    \/ G_B_Announce(g)
    \/ G_B_Acquire(g)
    \/ G_SetHealthy(g)
    \/ G_T_Lock(g)
    \/ G_T_Unlock(g)
    \/ G_AllowReturn(g)

InitGuard ==
    /\ InitPool(MaxBackends)
    /\ InitCallers
    /\ InitSeq
    /\ InitLimiter(1, 1)

NextGuard ==
    /\ \E g \in Callers : G_Begin(g) \/ G_Step(g)
    /\ UNCHANGED <<callerVars, seqVars, cfgVars, rlVars, rlObsVars, httpVars, hcVars>>
    /\ UNCHANGED <<heap, installed, tpc, tlocal, probeVars>>

SpecGuard == InitGuard /\ [][NextGuard]_vars

\* The scheduler runs every goroutine that can run, and sync.Mutex hands a
\* lock over to a goroutine that has been waiting for it (starvation mode), so
\* a goroutine whose next step is possible again and again takes it.
SpecGuardFair == SpecGuard /\ \A g \in Callers : SF_<<lbVars, tbMtx, guardVars>>(G_Step(g))

\* ================================================== concurrent selection
\* GetNextBackend called by several goroutines at once, statement by
\* statement, against a pool whose backends stay healthy; every result is
\* recorded when its call returns.
InitConc ==
    /\ \E k \in 1 .. MaxBackends : InitPool(k)
    /\ InitCallers
    /\ InitSeq
    /\ InitLimiter(1, 1)

\* The calls begun so far: those that returned and those under way.
CallsBegun == Len(history) + Cardinality({p \in Callers : pc[p] # "idle"})

Conc_Call(p) ==
    /\ CallsBegun < MaxCalls
    /\ GNB_RLock(p)
    /\ UNCHANGED seqVars

Conc_Step(p) ==
    /\ NB_Lock(p) \/ NB_Pick(p) \/ NB_Check(p) \/ GNB_RUnlock(p)
    /\ UNCHANGED seqVars

\* backend, err := h.loadBalancer.GetNextBackend(): the caller has the result.
Conc_Return(p) ==
    /\ pc[p] = "returned"
    /\ history' = Append(history, result[p])
    /\ pc' = [pc EXCEPT ![p] = "idle"]
    /\ result' = [result EXCEPT ![p] = NoResult]
    /\ UNCHANGED <<lbVars, fixedFrom, start, backendItem, seen, status, respBody>>

NextConc ==
    /\ \E p \in Callers : Conc_Call(p) \/ Conc_Step(p) \/ Conc_Return(p)
    /\ UNCHANGED <<cfgVars, raceVars, rlVars, rlObsVars, httpVars, hcVars, probeVars, guardVars>>

SpecConc == InitConc /\ [][NextConc]_vars

\* ================================================================= claims
Range(f) == {f[i] : i \in DOMAIN f}
AllBackends == Range(backends)
HealthyBackends == {b \in AllBackends : isHealthy[b]}

\* ---------------------------------------------------------------- C1
\* C1: a GetNextBackend call that returns a backend read that backend's health
\* flag as true in this very call (its last read) and never read it as false; a
\* call inspects no backend twice; it returns "no healthy backends available"
\* only after reading every backend of the non-empty pool once, each as
\* unhealthy, and "no backends available" exactly for the empty pool -- under
\* any interleaving with health-flag writes and other callers.
C1_SelectedWasObservedHealthy ==
    \A p \in Callers :
        LET sn == seen[p]
            r == result[p]
        IN  /\ Len(sn) <= Len(backends)
            /\ \A i, j \in DOMAIN sn : i # j => sn[i][1] # sn[j][1]
            /\ pc[p] = "unlock" =>
                /\ r.b # 0 =>
                    /\ r.err = ""
                    /\ sn # <<>>
                    /\ sn[Len(sn)] = <<r.b, TRUE>>
                    /\ \A i \in DOMAIN sn : ~sn[i][2] => sn[i][1] # r.b
                /\ r.b = 0 =>
                    IF Len(backends) = 0
                    THEN r.err = ErrNoBackends /\ sn = <<>>
                    ELSE /\ r.err = ErrNoHealthy
                         /\ Len(sn) = Len(backends)
                         /\ {sn[i][1] : i \in DOMAIN sn} = AllBackends
                         /\ \A i \in DOMAIN sn : ~sn[i][2]

\* A call skipped an unhealthy backend, returned the next one, and the checker
\* has already turned that one unhealthy before the call left GetNextBackend.
C1_Witness ==
    \E p \in Callers :
        /\ pc[p] = "unlock"
        /\ result[p].b # 0
        /\ Len(seen[p]) >= 2
        /\ ~isHealthy[result[p].b]

\* ---------------------------------------------------------------- C4
InFlight(b) == {p \in Callers : pc[p] \in {"proxy", "deferred"} /\ result[p].b = b}

\* C4: for every backend, under any interleaving of concurrent ServeHTTP calls,
\* activeConnections is never negative, equals the number of ServeHTTP calls in
\* flight on that backend, and is 0 when no call is in flight, whether the
\* upstream answered or the error handler ran.
C4_ActiveConnectionsCountInFlight ==
    \A b \in AllBackends :
        /\ activeConnections[b] >= 0
        /\ activeConnections[b] = Cardinality(InFlight(b))
        /\ (\A p \in Callers : pc[p] \notin {"proxy", "deferred"})
               => activeConnections[b] = 0

\* Every call has returned, one of them through the error handler (502), one
\* with the upstream's response, and every counter is back to 0.
C4_Witness ==
    /\ \A p \in Callers : pc[p] = "idle"
    /\ \E p, q \in Callers :
        /\ status[p] = StatusBadGateway
        /\ status[q] = StatusUpstream
    /\ \A b \in AllBackends : activeConnections[b] = 0

\* ---------------------------------------------------------------- C2
\* Position of backend b in the pool, and the cyclic distance (1 .. K) from
\* position i forward to position j.
Pos(b) == CHOOSE i \in DOMAIN backends : backends[i] = b
Dist(i, j) == ((j - i - 1) % Len(backends)) + 1
Count(b) == Cardinality({i \in DOMAIN history : history[i] = Ok(b)})
AllStayedHealthy == fixedFrom = 1 /\ HealthyBackends = AllBackends

\* C2: with K backends that all stayed healthy, the N sequential calls made so
\* far on the strategy instance returned pool[0], pool[1], ... cyclically (the
\* i-th call returned pool[(i-1) mod K]), so each backend was selected
\* floor(N/K) or ceil(N/K) times.
C2_RoundRobinOrderAndBalance ==
    AllStayedHealthy =>
        LET K == Len(backends)
            N == Len(history)
        IN  /\ \A i \in 1 .. N : history[i] = Ok(backends[((i - 1) % K) + 1])
            /\ \A b \in AllBackends :
                   Count(b) \in {N \div K, (N + K - 1) \div K}

\* Three healthy backends, six calls: b1, b2, b3, b1, b2, b3.
C2_Witness ==
    /\ AllStayedHealthy
    /\ Len(backends) = 3
    /\ history = <<Ok(1), Ok(2), Ok(3), Ok(1), Ok(2), Ok(3)>>

\* ---------------------------------------------------------------- C3
\* The healthy backend that follows b in pool order, cyclically.
NextHealthyAfter(b) ==
    CHOOSE x \in HealthyBackends :
        \A y \in HealthyBackends : Dist(Pos(b), Pos(x)) <= Dist(Pos(b), Pos(y))
FirstHealthy ==
    CHOOSE x \in HealthyBackends : \A y \in HealthyBackends : Pos(x) <= Pos(y)

\* C3: while the health flags stay as they are and some backend is healthy,
\* every call returns a healthy backend, each call returns the healthy backend
\* that follows the previous call's in pool order (cyclically, unhealthy ones
\* skipped; the first call of a fresh strategy returns the first healthy one),
\* so any H successive calls, H the number of healthy backends, return each
\* healthy backend exactly once.
C3_EnumeratesHealthyInPoolOrder ==
    HealthyBackends # {} =>
        LET N == Len(history)
            H == Cardinality(HealthyBackends)
        IN  /\ \A i \in fixedFrom .. N :
                /\ history[i].err = ""
                /\ history[i].b \in HealthyBackends
                /\ (i = 1) => history[i].b = FirstHealthy
                /\ (i > 1 /\ history[i - 1].b # 0) =>
                       history[i].b = NextHealthyAfter(history[i - 1].b)
            /\ \A i \in fixedFrom .. N :
                   i + H - 1 <= N =>
                       {history[j].b : j \in i .. (i + H - 1)} = HealthyBackends

\* Pool [b1, b2, b3] with b2 unhealthy: four calls in a row returned b1, b3, b1, b3.
C3_Witness ==
    /\ Len(backends) = 3
    /\ isHealthy = [b \in 1 .. 3 |-> b # 2]
    /\ Len(history) >= 4
    /\ fixedFrom <= Len(history) - 3
    /\ SubSeq(history, Len(history) - 3, Len(history)) = <<Ok(1), Ok(3), Ok(1), Ok(3)>>

\* ---------------------------------------------------------------- C6
\* C6: for the observed client, whose limits are rate R and burst B and whose
\* bucket was fresh at the first logged call: the first B calls made with no time
\* elapsing return true and the (B+1)-th returns false; of the calls made after
\* exactly 1/R seconds more, the first returns true and the second returns false.
SameInstant(i) == allowLog[i].t = allowLog[1].t

C6_FreshBucketAdmitsBurstThenOnePerPeriod ==
    LET R == GetClientLimits(Observed).Rate
        B == GetClientLimits(Observed).Burst
        n == Len(allowLog)
    IN  /\ \A i \in 1 .. n : (i <= B /\ SameInstant(i)) => allowLog[i].ok
        /\ (n >= B + 1 /\ SameInstant(B + 1)) => ~allowLog[B + 1].ok
        /\ (/\ n >= B + 2
            /\ SameInstant(B + 1)
            /\ allowLog[B + 2].t = allowLog[1].t + TicksPerSec \div R)
           => /\ allowLog[B + 2].ok
              /\ (n >= B + 3 /\ allowLog[B + 3].t = allowLog[B + 2].t)
                 => ~allowLog[B + 3].ok

\* B + 1 calls at one instant, then two calls 1/R seconds later, on a client
\* with limits of its own.
C6_Witness ==
    LET R == GetClientLimits(Observed).Rate
        B == GetClientLimits(Observed).Burst
    IN  /\ Observed \in DOMAIN clientLimits
        /\ B >= 2
        /\ Len(allowLog) = B + 3
        /\ SameInstant(B + 1)
        /\ allowLog[B + 2].t = allowLog[1].t + TicksPerSec \div R
        /\ allowLog[B + 3].t = allowLog[B + 2].t
        /\ allowLog[B + 2].ok
        /\ ~allowLog[B + 3].ok

\* ---------------------------------------------------------------- C7
\* SetClientLimits(c, r, b) followed by GetClientLimits(c) returns {r, b}.
SetThenGet ==
    lastOp'.op = "set" =>
        \A r \in Rates, b \in Bursts :
            RL_Set(lastOp'.id, r, b)
            => GetClientLimitsIn(clientLimits', lastOp'.id) = UserLimits(r, b)

\* DeleteClientLimits(c) followed by GetClientLimits(c) returns the defaults.
DeleteThenGet ==
    RL_Delete(lastOp'.id)
    => GetClientLimitsIn(clientLimits', lastOp'.id) = UserLimits(defaultRate, defaultBurst)

\* DeleteClientLimits on a client with no entry changes nothing.
DeleteWithoutEntryIsNoOp ==
    (RL_Delete(lastOp'.id) /\ lastOp'.id \notin DOMAIN clientLimits)
    => UNCHANGED <<clientLimits, limiters>>

\* DeleteClientLimits on a client with no entry leaves every entry and every
\* other client's bucket as they were, and leaves the client without a bucket.
DeleteWithoutEntryDropsOnlyOwnBucket ==
    (RL_Delete(lastOp'.id) /\ lastOp'.id \notin DOMAIN clientLimits)
    => /\ clientLimits' = clientLimits
       /\ DOMAIN limiters' = DOMAIN limiters \ {lastOp'.id}
       /\ \A o \in DOMAIN limiters' : limiters'[o] = limiters[o]

C5_AdminLimitsGovernApiKeyRequests ==
    configured # NotConfigured =>
        \A i \in 1 .. Len(keyedLog) :
            IF i <= configured.burst
            THEN ~keyedLog[i].rejected
            ELSE keyedLog[i].rejected /\ keyedLog[i].retryAfter = RetryAfterSeconds

\* ---------------------------------------------------------------- C8
\* The paths C8 names: exactly /health, or beginning with /admin/.
HealthOrUnderAdmin(path) ==
    \/ path = <<"health">>
    \/ Len(path) >= 2 /\ path[1] = "admin"

\* C8: for a request whose path is exactly /health or begins with /admin/ the
\* middleware does not call Allow, leaves the limiter's entries and buckets as
\* they were, does not answer 429 and hands the request to the next handler.
C8_ExemptPathsAreNeverRateLimited ==
    [][\A r \in DataRequests :
        (HealthOrUnderAdmin(r.path) /\ Middleware(r))
        => /\ resp'.allowCalls = 0
           /\ UNCHANGED <<clientLimits, limiters>>
           /\ resp'.status # StatusTooManyRequests
           /\ resp'.handler = "LoadBalancer"]_vars

\* A /health request has been handed on and proxied while the bucket of every
\* client that sends requests is empty.
C8_Witness ==
    /\ req.path = <<"health">>
    /\ resp.middleware = "bypass"
    /\ resp.backend # 0
    /\ \A r \in DataRequests :
        /\ getClientID(r) \in DOMAIN limiters
        /\ limiters[getClientID(r)].tokens < TicksPerSec

\* ---------------------------------------------------------------- C9
\* C9 as stated: a request is reverse-proxied to a backend only after the
\* rate limiter's Allow admitted it.
C9_ProxiedOnlyAfterAllow ==
    resp.backend # 0 => (resp.allowCalls >= 1 /\ resp.middleware = "admit")

\* --------------------------------------------------------------- C10
\* C10 as stated: with every backend's probe failed and completed the call
\* returns "no healthy backends available", and so does every call made more
\* than one health-check interval after the last backend started to fail.
C10_NoHealthyWithinOneInterval ==
    /\ lastCall.probesDone => lastCall.err = ErrNoHealthy
    /\ (lastCall.allDown /\ lastCall.afterInterval) => lastCall.err = ErrNoHealthy

\* C10: with every backend's probe failed and completed the call returns "no
\* healthy backends available", and so does every call made more than one
\* health-check interval plus the probe's client timeout after the last
\* backend started to fail, the backends still failing.
C10_NoHealthyWithinIntervalPlusTimeout ==
    /\ lastCall.probesDone => lastCall.err = ErrNoHealthy
    /\ (lastCall.allDown /\ lastCall.afterIntervalAndTimeout)
       => lastCall.err = ErrNoHealthy

\* A call made past interval plus timeout after the last of several backends
\* started to fail, the probes done, gets the error.
C10_Witness ==
    /\ Len(backends) >= 2
    /\ lastCall.allDown
    /\ lastCall.probesDone
    /\ lastCall.afterIntervalAndTimeout
    /\ lastCall.err = ErrNoHealthy

\* --------------------------------------------------------------- C11
\* Caller p's handler takes its step after GetNextBackend returned.
AfterGetNextBackend(p) == pc[p] = "returned" /\ pc'[p] # "returned"

\* C11: when GetNextBackend returned an error the handler answers 503 with the
\* body {"error":"No healthy backends available"}, enters ServeHTTP on no
\* backend and changes no active counter and no health flag; when it returned a
\* backend, ServeHTTP is entered on that backend, and it is entered only then
\* and runs to its end once per call.
C11_HandlerActsOnGetNextBackendResult ==
    [][\A p \in Callers :
        /\ AfterGetNextBackend(p) =>
            IF result[p].err # ""
            THEN /\ pc'[p] = "idle"
                 /\ status'[p] = StatusServiceUnavailable
                 /\ respBody'[p] = BodyNoHealthy
                 /\ UNCHANGED <<activeConnections, isHealthy>>
            ELSE /\ pc'[p] = "proxy"
                 /\ activeConnections' =
                        [activeConnections EXCEPT ![result[p].b] = @ + 1]
                 /\ UNCHANGED isHealthy
        /\ (pc'[p] = "proxy" /\ pc[p] # "proxy")
            => (pc[p] = "returned" /\ result[p].err = "")
        /\ (pc[p] = "proxy" /\ pc'[p] # "proxy") => pc'[p] = "deferred"
        /\ (pc[p] = "deferred" /\ pc'[p] # "deferred") => pc'[p] = "idle"]_vars

\* One caller has been answered 503 with the error body while another is
\* inside ServeHTTP on the backend it was given.
C11_Witness ==
    \E p, q \in Callers :
        /\ pc[p] = "idle"
        /\ status[p] = StatusServiceUnavailable
        /\ respBody[p] = BodyNoHealthy
        /\ pc[q] = "proxy"
        /\ activeConnections[result[q].b] >= 1

\* --------------------------------------------------------------- C12
\* The pool is one backend, and that backend is unreachable.
OneUnreachableBackend == Len(backends) = 1 /\ ~up[1]

\* The request just served by Handler.LoadBalancer was answered 503 with the
\* body {"error":"No healthy backends available"}.
AnsweredNoHealthy ==
    resp.status = StatusServiceUnavailable /\ resp.body = BodyNoHealthy

\* C12 as stated: with a pool of one unreachable backend, a request to the
\* data path is answered 503 "No healthy backends available" at whatever time
\* after startup it arrives.
C12_AsStated ==
    (OneUnreachableBackend /\ resp.handler = "LoadBalancer") => AnsweredNoHealthy

\* C12, amended: with a pool of one unreachable backend, a request that
\* arrives once the first probe has returned, which it has when more than the
\* probe timeout has passed since startup, is answered 503 "No healthy
\* backends available"; a request that arrives before is forwarded to the
\* backend and answered 502 "Backend server error".
C12_NoHealthyOnceFirstProbeReturned ==
    (OneUnreachableBackend /\ resp.handler = "LoadBalancer")
        => /\ sinceFail > HealthCheckTimeout => AnsweredNoHealthy
           /\ ~isHealthy[1] => AnsweredNoHealthy
           /\ isHealthy[1] =>
                (/\ resp.status = StatusBadGateway
                 /\ resp.body = BodyBackendError
                 /\ sinceFail <= HealthCheckTimeout)

\* A request served later than the probe timeout after startup, by a pool of
\* one unreachable backend.
C12_Witness ==
    /\ OneUnreachableBackend
    /\ resp.handler = "LoadBalancer"
    /\ sinceFail > HealthCheckTimeout
    /\ AnsweredNoHealthy

\* --------------------------------------------------------------- C13
\* C13: a request forwarded to backend b carries X-Backend equal to b's id; a
\* response of the upstream, whatever its status, reaches the client with the
\* upstream's status and body; a failed round trip, and nothing else, is
\* answered 502 with {"error": "Backend server error"}; in both cases the
\* request leaves every health flag as it was.
C13_ForwardedRelayedOrBadGateway ==
    [][(req' # NoRequest /\ resp'.backend # 0)
        => /\ resp'.xBackend = BackendID(resp'.backend)
           /\ resp'.upstream.kind \in {"response", "failure"}
           /\ resp'.upstream.kind = "response"
                => /\ resp'.status = resp'.upstream.status
                   /\ resp'.body = resp'.upstream.body
           /\ resp'.upstream.kind = "failure"
                => /\ resp'.status = StatusBadGateway
                   /\ resp'.body = BodyBackendError
           /\ resp'.body = BodyBackendError => resp'.upstream.kind = "failure"
           /\ UNCHANGED isHealthy]_vars

\* The second backend of a pool answered 500 and the client received it, and
\* the backend is still in rotation.
C13_Witness ==
    /\ resp.backend = 2
    /\ resp.xBackend = "b2"
    /\ resp.upstream.kind = "response"
    /\ resp.upstream.status = StatusInternalServerError
    /\ resp.status = StatusInternalServerError
    /\ isHealthy[2]

\* --------------------------------------------------------------- C14
\* The strategy object: RoundRobinStrategy's cursor and mutex.
StrategyObject == <<current, mtx>>

\* C14: POST /admin/strategy with a registered name answers 200 and installs
\* a new strategy, its cursor at the start, under the name the response and
\* /admin/stats report; with an unknown name it answers 400 with an error
\* that starts "unknown balancing strategy" and leaves the strategy object
\* and its cursor as they were; with another method it answers 405 and leaves
\* the strategy as it was.
C14_StrategyChange ==
    [][/\ \A r \in StrategyRequests :
            AdminChangeStrategy(r) =>
                IF r.method # "POST"
                THEN /\ resp'.status = StatusMethodNotAllowed
                     /\ UNCHANGED StrategyObject
                ELSE IF r.body.kind = "strategy" /\ r.body.strategy = "RoundRobin"
                THEN /\ resp'.status = StatusOK
                     /\ resp'.body = "RoundRobin"
                     /\ current' = 0
                     /\ mtx' = 0
                ELSE IF r.body.kind = "strategy"
                THEN /\ resp'.status = StatusBadRequest
                     /\ resp'.body =
                            "unknown balancing strategy: " \o r.body.strategy
                     /\ UNCHANGED StrategyObject
                ELSE /\ resp'.status = StatusBadRequest
                     /\ UNCHANGED StrategyObject
       /\ \A r \in StatsRequests :
            AdminGetStats(r) =>
                /\ resp'.status = StatusOK
                /\ resp'.body = "RoundRobin"
                /\ UNCHANGED StrategyObject]_vars

\* The cursor has moved off the start and a request naming an unknown
\* strategy has just been answered 400.
C14_Witness ==
    /\ current # 0
    /\ req = [path |-> <<"admin", "strategy">>]
    /\ resp.status = StatusBadRequest
    /\ resp.body = "unknown balancing strategy: LeastConnections"

\* --------------------------------------------------------------- C15
\* C15: after any sequence of admin requests every stored entry has a rate
\* above zero and a burst above zero: a POST or PUT to
\* /admin/ratelimit/{clientID} whose rate or burst is zero or less is
\* answered 400 and leaves the entry map and the bucket map as they were.
C15_StoredLimitsArePositive ==
    [][/\ \A c \in DOMAIN clientLimits' :
            clientLimits'[c].Rate > 0 /\ clientLimits'[c].Burst > 0
       /\ \A r \in AdminLimitRequests :
            (/\ HandleRateLimit(r)
             /\ r.method \in {"POST", "PUT"}
             /\ r.body.rate <= 0 \/ r.body.burst <= 0)
                => /\ resp'.status = StatusBadRequest
                   /\ UNCHANGED <<clientLimits, limiters>>]_vars

\* A client has an entry and a bucket, and an admin request for it has just
\* been answered 400.
C15_Witness ==
    /\ DOMAIN clientLimits # {}
    /\ DOMAIN limiters # {}
    /\ req = [path |-> <<"admin", "ratelimit", "10.0.0.1">>]
    /\ resp.status = StatusBadRequest

\* --------------------------------------------------------------- C16
\* C16: with rate limiting disabled in the configuration no request is
\* answered 429, whatever client requests and admin rate-limit requests came
\* before it.
C16_DisabledNeverRejects ==
    /\ resp.status # StatusTooManyRequests
    /\ \A i \in 1 .. Len(allowLog) : allowLog[i].ok

\* --------------------------------------------------------------- C17
\* The ids in a sequence of ids are pairwise different.
NoSharedID(ids) ==
    \A i, j \in 1 .. Len(ids) : ids[i] = ids[j] => i = j

\* C17: every pool a successful startup produces has ids that are non-empty
\* and pairwise different, and a configuration with an empty id or with the
\* same id twice among its backends does not start.
C17_PoolIdsNonEmptyAndUnique ==
    startup # NotStarted =>
        /\ startup.err = "" =>
            /\ \A i \in 1 .. Len(startup.pool) : startup.pool[i] # ""
            /\ NoSharedID(startup.pool)
        /\ (\/ \E i \in 1 .. Len(config.backends) : config.backends[i].id = ""
            \/ ~NoSharedID([i \in 1 .. Len(config.backends) |->
                                config.backends[i].id]))
            => startup.err # ""

\* --------------------------------------------------------------- C18
\* C18: in every reachable state of the rate limiter a client that has a
\* bucket has an entry: the first Allow of a client stores an entry made from
\* the defaults together with the bucket.
C18_BucketOnlyWithEntry ==
    /\ DOMAIN limiters \subseteq DOMAIN clientLimits
    /\ (lastOp.op = "allow" /\ ~lastOp.hadBucket) =>
            /\ lastOp.id \in DOMAIN clientLimits
            /\ clientLimits[lastOp.id] = UserLimits(defaultRate, defaultBurst)

\* --------------------------------------------------------------- C19
\* Every call that was made has returned, and at least one was made.
AllReturned ==
    /\ \A g \in Callers : tpc[g] \in {"idle", "done"}
    /\ \E g \in Callers : tpc[g] = "done"

\* C19: for any interleaving of Allow with SetClientLimits, UpdateClientLimits
\* and DeleteClientLimits on one client, once all calls have returned the
\* installed bucket, if there is one, has the rate and the burst of the
\* client's effective limits: the stored entry, or the defaults when there is
\* none.
C19_BucketMatchesEffectiveLimits ==
    (AllReturned /\ RaceClient \in DOMAIN installed)
        => /\ heap[installed[RaceClient]].limit = GetClientLimits(RaceClient).Rate
           /\ heap[installed[RaceClient]].burst = GetClientLimits(RaceClient).Burst

\* --------------------------------------------------------------- C20
\* Only Allow calls have been made.
OnlyAllowCalls == \A g \in Callers : tlocal[g].op \in {"none", "allow"}

\* C20: when Allow calls race on a client not seen before, one bucket is
\* created and installed and it is not replaced, every call draws from the
\* installed bucket, which is seeded at the defaults, and with no time passing
\* the calls together admit no more than the default burst.
C20_OneBucketForRacingAllows ==
    OnlyAllowCalls
        => /\ Len(heap) <= 1
           /\ \A g \in Callers :
                tpc[g] = "done" =>
                    /\ tlocal[g].limiter = installed[RaceClient]
                    /\ heap[tlocal[g].limiter].burst = defaultBurst
           /\ Cardinality({g \in Callers : tpc[g] = "done" /\ tlocal[g].ok})
                <= defaultBurst

\* --------------------------------------------------------------- C21
\* C21: GetClientLimits, and GetRate and GetBurst through it, leaves the entry
\* map and the bucket map as they were; for a client with no entry it returns
\* the defaults; and an Allow that follows for a client that had no bucket
\* still creates a full bucket from the client's limits and draws from it.
C21_GetClientLimitsStoresNothing ==
    [][/\ lastOp'.op = "get" =>
            /\ UNCHANGED <<clientLimits, limiters>>
            /\ ~lastOp'.hadEntry =>
                    lastOp'.got = UserLimits(defaultRate, defaultBurst)
            /\ lastOp'.hadEntry => lastOp'.got = clientLimits[lastOp'.id]
       /\ (/\ lastOp.op = "get"
           /\ ~lastOp.hadBucket
           /\ lastOp'.op = "allow"
           /\ lastOp'.id = lastOp.id) =>
            /\ ~lastOp'.hadBucket
            /\ limiters'[lastOp.id] =
                   LimiterAllow(NewLimiter(lastOp.got.Rate, lastOp.got.Burst)).lim]_vars

\* GetClientLimits returned the defaults for a client without entry and
\* bucket, and the client still has neither.
C21_Witness ==
    /\ lastOp.op = "get"
    /\ ~lastOp.hadEntry
    /\ ~lastOp.hadBucket
    /\ lastOp.got = UserLimits(defaultRate, defaultBurst)
    /\ lastOp.id \notin DOMAIN clientLimits
    /\ lastOp.id \notin DOMAIN limiters
    /\ DOMAIN clientLimits # {}

\* --------------------------------------------------------------- C22
\* C22: every backend's health flag starts true, and a step changes a flag
\* only if it is the health checker writing one backend's flag: no request,
\* whether to the data path (upstream failure included), to /health, to
\* /admin/stats, to /admin/strategy or to /admin/ratelimit/, changes any flag.
C22_OnlyTheHealthCheckerWritesFlags ==
    /\ \A b \in DOMAIN isHealthy : isHealthy[b]
    /\ [][/\ req' # NoRequest => UNCHANGED isHealthy
          /\ isHealthy' # isHealthy =>
                \E b \in DOMAIN isHealthy :
                    isHealthy' = [isHealthy EXCEPT ![b] = ~isHealthy[b]]]_vars

\* A request has just been forwarded to a backend, the round trip failed, and
\* the backend's flag is still true.
C22_Witness ==
    /\ resp.backend # 0
    /\ resp.upstream = UpstreamFailure
    /\ resp.status = StatusBadGateway
    /\ isHealthy[resp.backend]

\* --------------------------------------------------------------- C23
\* The flags with only backend b's flag set to h.
FlagSet(b, h) == [isHealthy EXCEPT ![b] = h]

\* C23: a probe that completes writes its backend's flag by its outcome, false
\* after a transport error and (status = 200) after a response, and writes no
\* other flag; a probe whose request could not be built writes none; nothing
\* else in the checker writes a flag.  So when the probe of an unhealthy
\* backend returned 200, GetNextBackend finds a healthy backend from then on
\* wherever the cursor stands, this one if no other is healthy.
C23_ProbeSetsFlagByOutcome ==
    [][/\ \A g \in Callers :
            /\ (ppc[g] = "write" /\ ppc'[g] = "log") =>
                /\ plocal[g].o = "error" => isHealthy' = FlagSet(plocal[g].b, FALSE)
                /\ plocal[g].o = "non200" => isHealthy' = FlagSet(plocal[g].b, FALSE)
                /\ plocal[g].o = "ok" =>
                    /\ isHealthy' = FlagSet(plocal[g].b, TRUE)
                    /\ \A c \in 0 .. Len(backends) - 1 :
                        /\ NextBackend(backends, isHealthy', c).res.err = ""
                        /\ (\A o \in DOMAIN isHealthy : o # plocal[g].b => ~isHealthy[o])
                            => NextBackend(backends, isHealthy', c).res.b = plocal[g].b
            /\ (ppc[g] = "request" /\ ppc'[g] = "idle") => UNCHANGED isHealthy
       /\ isHealthy' # isHealthy =>
            \E g \in Callers : ppc[g] = "write" /\ ppc'[g] = "log"]_vars

\* A backend was marked unhealthy and then healthy again, and every probe has
\* returned.
C23_Witness ==
    /\ Len(changes) >= 2
    /\ changes[1].to = FALSE
    /\ changes[2] = [b |-> changes[1].b, to |-> TRUE]
    /\ \A g \in Callers : ppc[g] = "idle"
    /\ isHealthy[changes[1].b]

\* --------------------------------------------------------------- C24
\* The events a step of the checker appended to the log.
NewlyLogged == SubSeq(logged', Len(logged) + 1, Len(logged'))

\* C24: a probe that fails with a transport error against a backend whose flag
\* is already false logs nothing at warning level, neither when Do returns
\* the error nor afterwards.
C24_NoWarningWithoutTransition ==
    [][\A g \in Callers :
          /\ ppc[g] = "do"
          /\ ppc'[g] = "read"
          /\ plocal'[g].o = "error"
          /\ ~isHealthy[plocal[g].b]
          => \A i \in 1 .. Len(NewlyLogged) : NewlyLogged[i].level # "warn"]_vars

\* --------------------------------------------------------------- C25
\* The transition events of the log, each as the change of flag it reports.
RECURSIVE TransitionsLogged(_)
TransitionsLogged(l) ==
    IF l = <<>> THEN <<>>
    ELSE LET e == Head(l)
         IN  (IF e.msg \in {"Backend became unhealthy",
                            "Backend became unhealthy due to connection error"}
              THEN <<[b |-> e.b, to |-> FALSE]>>
              ELSE IF e.msg = "Backend became healthy"
              THEN <<[b |-> e.b, to |-> TRUE]>>
              ELSE <<>>)
             \o TransitionsLogged(Tail(l))

\* The entries of a sequence of changes that are about backend b.
OfBackend(s, b) == SelectSeq(s, LAMBDA e : e.b = b)

\* C25: once every probe has returned, the transitions logged for a backend are
\* the changes of its flag, one for one and in order.
C25_TransitionsLoggedAreTheChanges ==
    (\A g \in Callers : ppc[g] = "idle") =>
        \A b \in DOMAIN isHealthy :
            OfBackend(TransitionsLogged(logged), b) = OfBackend(changes, b)

\* --------------------------------------------------------------- C26
\* The guards goroutine g holds: a guard is held from the return of its Lock
\* or RLock to its Unlock or RUnlock.
GuardsHeld(g) ==
    (IF g \in mu \/ (muW = g /\ gpc[g] = "mu.w") THEN {"lb.mu"} ELSE {})
    \cup (IF mtx = g THEN {"strategy.mtx"} ELSE {})
    \cup (IF \E b \in DOMAIN bR : g \in bR[b] \/ (bW[b] = g /\ gpc[g] = "b.w")
          THEN {"backend.mtx"} ELSE {})
    \cup (IF tbMtx = g THEN {"tb.mtx"} ELSE {})

\* C26: no call holds two guards at the same time.
C26_NoCallHoldsTwoGuards ==
    \A g \in Callers : Cardinality(GuardsHeld(g)) <= 1

\* --------------------------------------------------------------- C29
\* The order in which a call may take guards on top of one another.
NestingOrder == <<"lb.mu", "strategy.mtx", "backend.mtx">>
Rank(x) == CHOOSE i \in 0 .. Len(NestingOrder) : IF i = 0 THEN x = "tb.mtx" ELSE NestingOrder[i] = x

\* Every guard a step of g acquires comes after all the guards g holds, and
\* tb.mtx is never held together with another guard.
AcquiredInOrder(g) ==
    \A x \in GuardsHeld(g)' \ GuardsHeld(g) :
        \A y \in GuardsHeld(g) : Rank(y) # 0 /\ Rank(y) < Rank(x)

\* C29: calls of GetNextBackend, GetBackends, GetStrategy, SetStrategy,
\* IsHealthy, SetHealthy, Set/Update/DeleteClientLimits and Allow, interleaved
\* in every way, take their guards in the order lb.mu, strategy mutex, backend
\* guard; while some call is under way some goroutine can take a step; and
\* every call that has begun returns, a SetStrategy that waits behind
\* GetNextBackend's readers included.
C29_OrderedGuardsAndEveryCallReturns ==
    /\ [][\A g \in Callers : AcquiredInOrder(g)]_vars
    /\ [](\A g \in Callers : gpc[g] # "idle" => \E h \in Callers : ENABLED G_Step(h))
    /\ \A g \in Callers : (gpc[g] # "idle") ~> (gpc[g] = "idle")

\* A SetStrategy has announced itself and waits while a GetNextBackend, inside,
\* holds lb.mu, the strategy's mutex and a backend's guard.
C29_Witness ==
    \E w \in Callers, r \in Callers :
        /\ gpc[w] = "mu.wait"
        /\ muW = w
        /\ GuardsHeld(r) = {"lb.mu", "strategy.mtx", "backend.mtx"}

\* --------------------------------------------------------------- C27
\* The calls that have picked their backend, and those among them that picked b.
Picked == {p \in Callers : pc[p] \in {"check", "unlock", "returned"}}
PicksMade == Len(history) + Cardinality(Picked)
TimesChosen(b) ==
    Cardinality({i \in DOMAIN history : history[i].b = b})
    + Cardinality({p \in Picked : IF pc[p] = "check" THEN backendItem[p] = b
                                  ELSE result[p].b = b})

\* C27: under concurrent callers and healthy backends the cursor stays in
\* [0, len(pool)), at most one call is between s.mtx.Lock and Unlock, the cursor
\* has advanced by one for every pick made, and the picks are those of as many
\* sequential calls: pool[i] has been chosen once for each of the picks i,
\* i + K, i + 2K, ..., that is floor(N/K) or ceil(N/K) times; no call fails.
C27_ConcurrentPicksAreSequential ==
    LET K == Len(backends)
        N == PicksMade
    IN  /\ current \in 0 .. K - 1
        /\ Cardinality({p \in Callers : pc[p] \in {"loop", "check"}}) <= 1
        /\ current = N % K
        /\ \A i \in 1 .. K :
            /\ TimesChosen(backends[i]) = (N + K - i) \div K
            /\ TimesChosen(backends[i]) \in {N \div K, (N + K - 1) \div K}
        /\ \A i \in DOMAIN history : history[i].err = "" /\ history[i].b # 0

\* Two calls are under way at once, one with its pick made and the other
\* waiting for the strategy's mutex, after calls that do not divide evenly
\* among the backends.
C27_Witness ==
    \E p, q \in Callers :
        /\ pc[p] = "check"
        /\ pc[q] = "rlocked"
        /\ Len(backends) >= 2
        /\ Len(history) % Len(backends) # 0
        /\ Len(history) > Len(backends)

\* --------------------------------------------------------------- C28
\* What GetNextBackend returns in the state a step leads to.
NextResult == NextBackend(backends', isHealthy', current').res

\* C28: when a POST /admin/strategy has installed the Round-Robin strategy,
\* the pool and its order are as before and so are the flags, and the next
\* GetNextBackend scans from pool[0], whatever the cursor was: it returns
\* what a scan from 0 returns, pool[0] if that one is healthy; and until that
\* call nothing moves the cursor, which only a data-path request or a swap
\* changes.
C28_SwapRestartsTheScan ==
    [][/\ \A r \in StrategyRequests :
            (AdminChangeStrategy(r) /\ resp'.status = StatusOK) =>
                /\ backends' = backends
                /\ isHealthy' = isHealthy
                /\ NextResult = NextBackend(backends, isHealthy, 0).res
                /\ isHealthy[backends[1]] => NextResult = Ok(backends[1])
                /\ (\A b \in AllBackends : ~isHealthy[b]) => NextResult = Fail(ErrNoHealthy)
       /\ current' # current =>
            resp'.handler \in {"LoadBalancer", "AdminChangeStrategy"}]_vars

\* A swap has just been answered 200 on a pool of several backends whose
\* first is unhealthy: the cursor is at the start, and the next call will skip
\* pool[0].
C28_Witness ==
    /\ resp.handler = "AdminChangeStrategy"
    /\ resp.status = StatusOK
    /\ current = 0
    /\ Len(backends) >= 2
    /\ ~isHealthy[backends[1]]
    /\ isHealthy[backends[2]]

====
